---- MODULE Spec2Model ----
(***************************************************************************)
(* Model of cdj_compare_playlists.py: the key normaliser (_norm), the       *)
(* record matcher (_match), the hot-cue comparator                         *)
(* (_match_hot_cue_positions) and main() with its TrackNo reorder phase    *)
(* and its hot-cue write-back phase.                                       *)
(*                                                                         *)
(* Conventions.  Python lists are 0-based, the sequences here are 1-based: *)
(* list index j is sequence index j+1.  A normalised key is a string; ""   *)
(* is Python's falsy key (fb_norm = None is falsy in the same two places   *)
(* and is modelled as "").  Python's None result of _pop is NoIdx.         *)
(***************************************************************************)
EXTENDS Integers, Sequences, FiniteSets, TLC

VARIABLES
    pc,              \* position in the run being modelled
    run,             \* number of the current invocation of main()
    db_base,         \* base playlist held by the database, TrackNo order
    base,            \* base: List[Rec], in TrackNo order
    cand,            \* cand: List[Rec], in TrackNo order
    title_fb,        \* not args.no_title_fallback
    apply_order,     \* args.apply_order
    force_order,     \* args.force_order
    matches,         \* matches: sequence of <<base index, cand index>>
    missing,         \* missing: sequence of base indices
    extra,           \* extra: sequence of cand indices
    desired_ids,     \* desired_ids
    pos,             \* pos: song_pl_id -> 1-based position
    idx,             \* i of "for i, sid in enumerate(desired_ids, start=1)"
    moves_made,      \* moves_made: sequence of [sid, from, to]
    move_calls,      \* every a.db.move_song_in_playlist call of this run
    reported,        \* the lines printed about moves, in print order
    store,           \* candidate playlist order held by the open database
    persisted,       \* candidate playlist order last committed
    commit_state,    \* outcome of this run's a.db.commit after reordering
    prev_run,        \* what the previous invocation left behind
    base_ms,         \* _match_hot_cue_positions: base_ms
    cand_ms,         \* _match_hot_cue_positions: cand_ms
    tol_ms,          \* _match_hot_cue_positions: tol_ms
    hc_result,       \* (matched_pairs, unmatched_base, unmatched_cand)
    known,           \* which of args.base, args.candidate name a playlist
    apply_hotcues,   \* args.apply_hotcues
    hotcue_tolerance_ms,  \* args.hotcue_tolerance_ms
    base_cues,       \* hot cues of the base tracks: base index -> offsets
    cues,            \* hot cues of the candidate tracks in the open database
    cues_saved,      \* hot cues of the candidate tracks last committed
    hotcue_count_mismatches,      \* pairs <<base index, cand index>>
    hotcue_placement_mismatches,  \* pairs <<base index, cand index>>
    placement_runs,  \* pairs _match_hot_cue_positions was called for
    to_fix,          \* to_fix: sequence of [b, c, reason]
    fix_idx,         \* position of "for (b,c,reason) in to_fix"
    staged,          \* staged
    clone_calls,     \* every _clone_hot_cues_from_base_to_cand call
    commit_calls,    \* every a.db.commit call of this run
    exit_status,     \* argument of sys.exit
    norm_in,         \* _norm: s, a sequence of characters
    norm_out,        \* _norm: the key returned
    songs,           \* playlist.Songs of the watched playlist, as stored
    play_counts,     \* Content.DJPlayCount by Content.ID, in the database
    prev_counts,     \* prev_counts of the watching loop
    last_known_song, \* last_known_song of the watching loop
    detect_call      \* arguments and outcome of the last detect_current_song

vars == <<pc, run, db_base, base, cand, title_fb, apply_order, force_order, matches,
          missing, extra, desired_ids, pos, idx, moves_made, move_calls,
          reported, store, persisted, commit_state, prev_run, base_ms, cand_ms, tol_ms,
          hc_result, known, apply_hotcues, hotcue_tolerance_ms,
                   base_cues, cues, cues_saved,
          hotcue_count_mismatches, hotcue_placement_mismatches, placement_runs,
          to_fix, fix_idx, staged, clone_calls, commit_calls, exit_status,
          norm_in, norm_out,
          songs, play_counts, prev_counts, last_known_song, detect_call>>

matchVars == <<base, cand, title_fb, matches, missing, extra>>
orderVars == <<run, db_base, apply_order, force_order, desired_ids, pos, idx,
               moves_made, move_calls, reported, store, persisted,
               commit_state, prev_run>>
cueVars   == <<base_ms, cand_ms, tol_ms, hc_result>>
syncVars  == <<known, apply_hotcues, hotcue_tolerance_ms,
                   base_cues, cues, cues_saved,
               hotcue_count_mismatches, hotcue_placement_mismatches,
               placement_runs, to_fix, fix_idx, staged, clone_calls,
               commit_calls, exit_status>>
normVars  == <<norm_in, norm_out>>
detectVars == <<songs, play_counts, prev_counts, last_known_song, detect_call>>

(***************************************************************************)
(* Bounds of the model.                                                    *)
(***************************************************************************)
MaxBase  == 3      \* longest base playlist of a run of main()
MaxCand  == 3      \* longest candidate playlist of a run of main()
MaxRuns  == 2      \* invocations of main() in a row
MaxPure  == 2      \* longest playlist handed to _match on its own
MaxCues  == 3      \* longest hot-cue list
MaxMs    == 5      \* largest cue offset
MaxTol   == 2      \* largest tolerance
MaxSync  == 2      \* longest playlist of a run of main() with hot cues
MaxSyncCues == 2   \* most hot cues of a track in such a run
MaxText  == 4      \* longest text handed to _norm

NoIdx == 0         \* Python's None where an index is expected
NoStatus == -1     \* sys.exit not reached yet

Range(s) == {s[k] : k \in 1..Len(s)}

SeqsUpTo(S, n) == UNION {[1..k -> S] : k \in 0..n}

Abs(x) == IF x < 0 THEN -x ELSE x

(***************************************************************************)
(* Rec, restricted to the fields the matcher and the reorder phase read.   *)
(***************************************************************************)
Rec(a, t, f, no, sid) ==
    [artist_norm |-> a, title_norm |-> t, fb_norm |-> f,
     track_no |-> no, song_pl_id |-> sid]

\* DjmdSongPlaylist.ID of the slot first read at candidate position j.
SlotIdOf(j) == 100 + j

(***************************************************************************)
(* _index_many, _pop and _match.                                           *)
(***************************************************************************)
\* cand_idx(): the candidate indices not yet used, ascending.
cand_idx(used_c) ==
    SelectSeq([j \in 1..Len(used_c) |-> j], LAMBDA j : ~used_c[j])

\* Mutant: "d[k] = [i]", a bucket keeps only the last index filed.
_index_many_LastOnly(values, keys) ==
    [k \in {keys[j] : j \in Range(values)} \ {""} |->
        LET s == SelectSeq(values, LAMBDA j : keys[j] = k) IN <<s[Len(s)]>>]

\* Mutant: without "if k", the empty key gets a bucket too.
_index_many_KeepsEmpty(values, keys) ==
    [k \in {keys[j] : j \in Range(values)} |->
        SelectSeq(values, LAMBDA j : keys[j] = k)]

\* Mutant: every value is filed under every truthy key.
_index_many_AnyKey(values, keys) ==
    [k \in {keys[j] : j \in Range(values)} \ {""} |-> values]

\* _index_many(values, key_fn): key -> indices in insertion order, for the
\* truthy keys only.  keys[j] is key_fn(j).
_index_many(values, keys) ==
    [k \in {keys[j] : j \in Range(values)} \ {""} |->
        SelectSeq(values, LAMBDA j : keys[j] = k)]

\* Mutant: the first index of the bucket is returned.
_pop_First(buckets, k) ==
    IF k \in DOMAIN buckets /\ Len(buckets[k]) > 0
    THEN buckets[k][1]
    ELSE NoIdx

\* _pop(buckets, k): the value returned ...
_pop(buckets, k) ==
    IF k \in DOMAIN buckets /\ Len(buckets[k]) > 0
    THEN buckets[k][Len(buckets[k])]
    ELSE NoIdx

\* Mutant: the popped index stays in its bucket.
_popped_KeepsAll(buckets, k) == buckets

\* ... and the buckets it leaves behind.
_popped(buckets, k) ==
    IF k \in DOMAIN buckets /\ Len(buckets[k]) > 0
    THEN [buckets EXCEPT ![k] = SubSeq(@, 1, Len(@) - 1)]
    ELSE buckets

\* One "for i in range(nb)" loop of _match, from base index i on.  kb[i] is
\* the key looked up for base[i]; skip[i] is the extra "continue" condition
\* of the pass.  st = [used_b, used_c, matches].
RECURSIVE MatchPassFrom(_, _, _, _, _)
MatchPassFrom(i, kb, skip, buckets, st) ==
    IF i > Len(kb) THEN st
    ELSE IF st.used_b[i] \/ skip[i]
         THEN MatchPassFrom(i + 1, kb, skip, buckets, st)
         ELSE LET j == _pop(buckets, kb[i]) IN
              IF j = NoIdx
              THEN MatchPassFrom(i + 1, kb, skip, _popped(buckets, kb[i]), st)
              ELSE MatchPassFrom(i + 1, kb, skip, _popped(buckets, kb[i]),
                       [used_b  |-> [st.used_b EXCEPT ![i] = TRUE],
                        used_c  |-> [st.used_c EXCEPT ![j] = TRUE],
                        matches |-> Append(st.matches, <<i, j>>)])

MatchPass(kb, kc, skip, st) ==
    MatchPassFrom(1, kb, skip, _index_many(cand_idx(st.used_c), kc), st)

\* Mutant: pass 1 keyed on the artist alone.
IdentityKey_ArtistOnly(r) == r.artist_norm

IdentityKey(r) == r.artist_norm \o "|" \o r.title_norm

MatchStart(b, c) ==
    [used_b |-> [i \in 1..Len(b) |-> FALSE],
     used_c |-> [j \in 1..Len(c) |-> FALSE],
     matches |-> <<>>]

MatchPass1(b, c) ==
    MatchPass([i \in 1..Len(b) |-> IdentityKey(b[i])],
              [j \in 1..Len(c) |-> IdentityKey(c[j])],
              [i \in 1..Len(b) |-> FALSE],
              MatchStart(b, c))

MatchPass2(b, c, st) ==
    MatchPass([i \in 1..Len(b) |-> b[i].fb_norm],
              [j \in 1..Len(c) |-> c[j].fb_norm],
              [i \in 1..Len(b) |-> b[i].fb_norm = ""],
              st)

\* Mutant: pass 3 runs whatever title_fb says.
MatchPass3_Always(b, c, fb, st) ==
    MatchPass([i \in 1..Len(b) |-> b[i].title_norm],
              [j \in 1..Len(c) |-> c[j].title_norm],
              [i \in 1..Len(b) |-> FALSE],
              st)

MatchPass3(b, c, fb, st) ==
    IF fb
    THEN MatchPass([i \in 1..Len(b) |-> b[i].title_norm],
                   [j \in 1..Len(c) |-> c[j].title_norm],
                   [i \in 1..Len(b) |-> FALSE],
                   st)
    ELSE st

\* _match(base, cand, title_fb) -> (matches, missing, extra), records named
\* by their index in base and cand.
_match(b, c, fb) ==
    LET st == MatchPass3(b, c, fb, MatchPass2(b, c, MatchPass1(b, c)))
    IN  [matches |-> st.matches,
         missing |-> SelectSeq([i \in 1..Len(b) |-> i], LAMBDA i : ~st.used_b[i]),
         extra   |-> SelectSeq([j \in 1..Len(c) |-> j], LAMBDA j : ~st.used_c[j])]

(***************************************************************************)
(* _match_hot_cue_positions.                                               *)
(***************************************************************************)
NoDiff == -1       \* best_abs_diff = None

\* Mutant: the first free candidate within the tolerance is taken, near or
\* not.
RECURSIVE NearestFrom_FirstWithin(_, _, _, _, _, _, _)
NearestFrom_FirstWithin(j, b, cms, used, tol, found_j, best_abs_diff) ==
    IF j > Len(cms) THEN found_j
    ELSE IF used[j]
         THEN NearestFrom_FirstWithin(j + 1, b, cms, used, tol, found_j, best_abs_diff)
         ELSE LET diff == Abs(cms[j] - b) IN
              IF diff <= tol /\ best_abs_diff = NoDiff
              THEN NearestFrom_FirstWithin(j + 1, b, cms, used, tol, j, diff)
              ELSE NearestFrom_FirstWithin(j + 1, b, cms, used, tol, found_j, best_abs_diff)

\* Mutant: "diff <= best_abs_diff", the last of the nearest wins.
RECURSIVE NearestFrom_LastOnTie(_, _, _, _, _, _, _)
NearestFrom_LastOnTie(j, b, cms, used, tol, found_j, best_abs_diff) ==
    IF j > Len(cms) THEN found_j
    ELSE IF used[j]
         THEN NearestFrom_LastOnTie(j + 1, b, cms, used, tol, found_j, best_abs_diff)
         ELSE LET diff == Abs(cms[j] - b) IN
              IF diff <= tol /\ (best_abs_diff = NoDiff \/ diff <= best_abs_diff)
              THEN NearestFrom_LastOnTie(j + 1, b, cms, used, tol, j, diff)
              ELSE NearestFrom_LastOnTie(j + 1, b, cms, used, tol, found_j, best_abs_diff)

\* The inner "for j, cm in enumerate(cand_ms)" loop from index j on; the
\* result is found_j.
RECURSIVE NearestFrom(_, _, _, _, _, _, _)
NearestFrom(j, b, cms, used, tol, found_j, best_abs_diff) ==
    IF j > Len(cms) THEN found_j
    ELSE IF used[j]
         THEN NearestFrom(j + 1, b, cms, used, tol, found_j, best_abs_diff)
         ELSE LET diff == Abs(cms[j] - b) IN
              IF diff <= tol /\ (best_abs_diff = NoDiff \/ diff < best_abs_diff)
              THEN NearestFrom(j + 1, b, cms, used, tol, j, diff)
              ELSE NearestFrom(j + 1, b, cms, used, tol, found_j, best_abs_diff)

\* The outer "for b in base_ms" loop from index k on.
RECURSIVE HotCueLoopFrom(_, _, _, _, _)
HotCueLoopFrom(k, bms, cms, tol, st) ==
    IF k > Len(bms) THEN st
    ELSE LET found_j == NearestFrom(1, bms[k], cms, st.used, tol, NoIdx, NoDiff) IN
         IF found_j = NoIdx
         THEN HotCueLoopFrom(k + 1, bms, cms, tol,
                  [st EXCEPT !.unmatched_base = Append(@, bms[k])])
         ELSE HotCueLoopFrom(k + 1, bms, cms, tol,
                  [st EXCEPT !.used[found_j] = TRUE,
                             !.matched_pairs = Append(@, <<bms[k], cms[found_j]>>)])

_match_hot_cue_positions(bms, cms, tol) ==
    LET st == HotCueLoopFrom(1, bms, cms, tol,
                  [used |-> [j \in 1..Len(cms) |-> FALSE],
                   matched_pairs |-> <<>>,
                   unmatched_base |-> <<>>])
    IN  [matched_pairs  |-> st.matched_pairs,
         unmatched_base |-> st.unmatched_base,
         unmatched_cand |->
             LET free == SelectSeq([j \in 1..Len(cms) |-> j], LAMBDA j : ~st.used[j])
             IN  [n \in 1..Len(free) |-> cms[free[n]]]]

(***************************************************************************)
(* Values of the variables a specification does not use.                   *)
(***************************************************************************)
NoResult == [matched_pairs |-> <<>>, unmatched_base |-> <<>>, unmatched_cand |-> <<>>]

NoPrevRun == [clean |-> FALSE, pairs |-> {}]

MatchIdle ==
    /\ base = <<>> /\ cand = <<>> /\ title_fb = TRUE
    /\ matches = <<>> /\ missing = <<>> /\ extra = <<>>

OrderIdle ==
    /\ run = 0 /\ db_base = <<>> /\ apply_order = FALSE /\ force_order = FALSE
    /\ desired_ids = <<>> /\ pos = <<>> /\ idx = 0
    /\ moves_made = <<>> /\ move_calls = <<>> /\ reported = <<>>
    /\ store = <<>> /\ persisted = <<>> /\ commit_state = "none"
    /\ prev_run = NoPrevRun

CueIdle ==
    /\ base_ms = <<>> /\ cand_ms = <<>> /\ tol_ms = 0 /\ hc_result = NoResult

SyncIdle ==
    /\ known = {} /\ apply_hotcues = FALSE /\ hotcue_tolerance_ms = 0
    /\ base_cues = <<>> /\ cues = <<>> /\ cues_saved = <<>>
    /\ hotcue_count_mismatches = <<>> /\ hotcue_placement_mismatches = <<>>
    /\ placement_runs = <<>>
    /\ to_fix = <<>> /\ fix_idx = 0 /\ staged = 0
    /\ clone_calls = <<>> /\ commit_calls = <<>>
    /\ exit_status = NoStatus

NormIdle ==
    /\ norm_in = <<>> /\ norm_out = <<>>

\* last_known_song = None, and "no call yet".
NoSong == [ID |-> 0, TrackNo |-> 0, cid |-> 0]
NoCall == [made |-> FALSE]

DetectIdle ==
    /\ songs = <<>> /\ play_counts = <<>> /\ prev_counts = <<>>
    /\ last_known_song = NoSong /\ detect_call = NoCall

(***************************************************************************)
(* _match on its own: every pair of playlists of at most MaxPure records   *)
(* over the keys below, with and without the title fallback.               *)
(***************************************************************************)
PureArtists == {"", "a"}
PureTitles  == {"", "t", "u"}
PureStems   == {"", "f", "g"}

PureKeys == PureArtists \X PureTitles \X PureStems

\* A playlist as _playlist_entries returns it: TrackNo order, one slot ID
\* for each slot.
PurePlaylist(ks) ==
    [i \in 1..Len(ks) |-> Rec(ks[i][1], ks[i][2], ks[i][3], i, SlotIdOf(i))]

InitMatch ==
    /\ pc = "match_in"
    /\ base \in {PurePlaylist(ks) : ks \in SeqsUpTo(PureKeys, MaxPure)}
    /\ cand \in {PurePlaylist(ks) : ks \in SeqsUpTo(PureKeys, MaxPure)}
    /\ title_fb \in BOOLEAN
    /\ matches = <<>> /\ missing = <<>> /\ extra = <<>>
    /\ OrderIdle /\ CueIdle /\ SyncIdle /\ NormIdle /\ DetectIdle

DoMatch ==
    /\ pc = "match_in"
    /\ LET r == _match(base, cand, title_fb) IN
          /\ matches' = r.matches
          /\ missing' = r.missing
          /\ extra'   = r.extra
    /\ pc' = "match_out"
    /\ UNCHANGED <<base, cand, title_fb>>
    /\ UNCHANGED orderVars /\ UNCHANGED cueVars
    /\ UNCHANGED syncVars /\ UNCHANGED normVars /\ UNCHANGED detectVars

NextMatch == DoMatch

SpecMatch == InitMatch /\ [][NextMatch]_vars

(***************************************************************************)
(* _match_hot_cue_positions on its own.  Both lists are ascending, as      *)
(* _hot_cue_positions_ms returns them.                                     *)
(***************************************************************************)
IsAscending(s) == \A k \in 1..(Len(s) - 1) : s[k] <= s[k + 1]

CueLists == {s \in SeqsUpTo(0..MaxMs, MaxCues) : IsAscending(s)}

InitCues ==
    /\ pc = "cues_in"
    /\ base_ms \in CueLists
    /\ cand_ms \in CueLists
    /\ tol_ms \in 0..MaxTol
    /\ hc_result = NoResult
    /\ MatchIdle /\ OrderIdle /\ SyncIdle /\ NormIdle /\ DetectIdle

DoCompareCues ==
    /\ pc = "cues_in"
    /\ hc_result' = _match_hot_cue_positions(base_ms, cand_ms, tol_ms)
    /\ pc' = "cues_out"
    /\ UNCHANGED <<base_ms, cand_ms, tol_ms>>
    /\ UNCHANGED matchVars /\ UNCHANGED orderVars
    /\ UNCHANGED syncVars /\ UNCHANGED normVars /\ UNCHANGED detectVars

NextCues == DoCompareCues

SpecCues == InitCues /\ [][NextCues]_vars

(***************************************************************************)
(* _norm on its own.  A text is a sequence of characters; the characters   *)
(* are named by strings: "a" and "B" are ASCII letters, " " and "-" ASCII  *)
(* separators, "e_acute" is U+00E9, "em_dash" is U+2014 and                *)
(* "combining_acute" is U+0301.                                            *)
(***************************************************************************)
NormChars == {"a", "B", " ", "-", "e_acute", "em_dash"}

\* unicodedata.normalize("NFKD", ch): U+00E9 is e followed by U+0301, the
\* other characters have no decomposition.
NFKD(ch) == IF ch = "e_acute" THEN <<"e", "combining_acute">> ELSE <<ch>>

IsAscii(ch) == ch \notin {"e_acute", "combining_acute", "em_dash"}

\* str.lower on an ASCII character.
Lower(ch) == IF ch = "B" THEN "b" ELSE ch

\* [0-9a-z] under re.IGNORECASE.
MatchesAlnum(ch) == ch \in {"a", "b", "e", "B"}

RECURSIVE Decompose(_)
Decompose(s) == IF s = <<>> THEN <<>> ELSE NFKD(Head(s)) \o Decompose(Tail(s))

\* .encode("ascii","ignore").decode("ascii"): the non-ASCII characters drop
\* out.
AsciiIgnore(s) == SelectSeq(s, IsAscii)

ToLower(s) == [k \in 1..Len(s) |-> Lower(s[k])]

RECURSIVE SkipNonAlnum(_)
SkipNonAlnum(s) ==
    IF s = <<>> \/ MatchesAlnum(Head(s)) THEN s ELSE SkipNonAlnum(Tail(s))

\* _NON_ALNUM_RE.sub(" ", s): each maximal run that is not [0-9a-z] becomes
\* one space.
RECURSIVE SubNonAlnum(_)
SubNonAlnum(s) ==
    IF s = <<>> THEN <<>>
    ELSE IF MatchesAlnum(Head(s))
         THEN <<Head(s)>> \o SubNonAlnum(Tail(s))
         ELSE <<" ">> \o SubNonAlnum(SkipNonAlnum(Tail(s)))

\* s.split(): the maximal runs without a space, from the word w begun.
RECURSIVE SplitFrom(_, _)
SplitFrom(s, w) ==
    IF s = <<>> THEN (IF w = <<>> THEN <<>> ELSE <<w>>)
    ELSE IF Head(s) = " "
         THEN (IF w = <<>> THEN <<>> ELSE <<w>>) \o SplitFrom(Tail(s), <<>>)
         ELSE SplitFrom(Tail(s), Append(w, Head(s)))

\* " ".join(words)
RECURSIVE JoinWords(_)
JoinWords(ws) ==
    IF ws = <<>> THEN <<>>
    ELSE IF Len(ws) = 1 THEN ws[1]
         ELSE ws[1] \o <<" ">> \o JoinWords(Tail(ws))

_norm(s) ==
    IF s = <<>> THEN <<>>
    ELSE JoinWords(SplitFrom(SubNonAlnum(ToLower(AsciiIgnore(Decompose(s)))), <<>>))

InitNorm ==
    /\ pc = "norm_in"
    /\ norm_in \in SeqsUpTo(NormChars, MaxText)
    /\ norm_out = <<>>
    /\ MatchIdle /\ OrderIdle /\ CueIdle /\ SyncIdle /\ DetectIdle

DoNorm ==
    /\ pc = "norm_in"
    /\ norm_out' = _norm(norm_in)
    /\ pc' = "norm_out"
    /\ UNCHANGED norm_in
    /\ UNCHANGED matchVars /\ UNCHANGED orderVars /\ UNCHANGED cueVars
    /\ UNCHANGED syncVars /\ UNCHANGED detectVars

NextNorm == DoNorm

SpecNorm == InitNorm /\ [][NextNorm]_vars

(***************************************************************************)
(* RekordboxPlaylistAnalyzer.detect_current_song, called from the loop of  *)
(* sync_video_to_playlist_bpm.py while Rekordbox plays songs and the       *)
(* playlist grows.  A song is [ID, TrackNo, cid]: the playlist slot, its   *)
(* TrackNo and its Content.ID; a content can sit in two slots.             *)
(***************************************************************************)
MaxSongs == 3
MaxPlays == 2
DetectCids == {1, 2}

\* sorted(playlist.Songs, key=lambda s: s.TrackNo), stable.
RECURSIVE InsertSong(_, _)
InsertSong(sorted, song) ==
    IF sorted = <<>> THEN <<song>>
    ELSE IF sorted[Len(sorted)].TrackNo <= song.TrackNo
         THEN Append(sorted, song)
         ELSE Append(InsertSong(SubSeq(sorted, 1, Len(sorted) - 1), song),
                     sorted[Len(sorted)])

RECURSIVE SortedFrom(_, _, _)
SortedFrom(ss, k, sorted) ==
    IF k > Len(ss) THEN sorted
    ELSE SortedFrom(ss, k + 1, InsertSong(sorted, ss[k]))

get_playlist_songs_by_trackno(ss) == SortedFrom(ss, 1, <<>>)

\* {song.Content.ID: song.Content.DJPlayCount for song in songs}
init_play_counts(ss, counts) ==
    [c \in {ss[k].cid : k \in 1..Len(ss)} |-> counts[c]]

\* Mutant: a content the map does not know counts as never played.
PreviousCount_DefaultZero(previous_counts, c, count) ==
    IF c \in DOMAIN previous_counts THEN previous_counts[c] ELSE 0

\* previous_counts.get(cid, curr)
PreviousCount(previous_counts, c, count) ==
    IF c \in DOMAIN previous_counts THEN previous_counts[c] ELSE count

\* The for loop: "current" after the songs from k on, in TrackNo order.
RECURSIVE DetectLoopFrom(_, _, _, _, _)
DetectLoopFrom(sorted, k, counts, previous_counts, current) ==
    IF k > Len(sorted) THEN current
    ELSE LET c    == sorted[k].cid
             prev == PreviousCount(previous_counts, c, counts[c])
         IN  DetectLoopFrom(sorted, k + 1, counts, previous_counts,
                            IF counts[c] > prev THEN sorted[k] ELSE current)

\* detect_current_song: (current, new_counts), or IndexError from songs[0]
\* on a playlist that has no song.
detect_current_song(ss, counts, previous_counts, last_known) ==
    LET sorted     == get_playlist_songs_by_trackno(ss)
        new_counts == init_play_counts(sorted, counts)
        current    == DetectLoopFrom(sorted, 1, counts, previous_counts, NoSong)
    IN  IF current # NoSong
        THEN [raised |-> FALSE, current |-> current, new_counts |-> new_counts]
        ELSE IF last_known # NoSong
        THEN [raised |-> FALSE, current |-> last_known, new_counts |-> new_counts]
        ELSE IF sorted # <<>>
        THEN [raised |-> FALSE, current |-> sorted[1], new_counts |-> new_counts]
        ELSE [raised |-> TRUE, current |-> NoSong, new_counts |-> new_counts]

\* The playlists the loop can start on: every TrackNo from 1 up once, the
\* rows in any order.
StoredPlaylists(n) ==
    {ss \in [1..n -> [ID : 1..n, TrackNo : 1..n, cid : DetectCids]] :
        /\ \A k \in 1..n : ss[k].ID = k
        /\ \A k, m \in 1..n : k # m => ss[k].TrackNo # ss[m].TrackNo}

InitDetect ==
    /\ pc = "watch"
    /\ \E n \in 0..(MaxSongs - 1) : songs \in StoredPlaylists(n)
    /\ play_counts \in [DetectCids -> 0..(MaxPlays - 1)]
    /\ prev_counts = init_play_counts(get_playlist_songs_by_trackno(songs),
                                      play_counts)
    /\ last_known_song = NoSong
    /\ detect_call = NoCall
    /\ MatchIdle /\ OrderIdle /\ CueIdle /\ SyncIdle /\ NormIdle

\* Rekordbox plays a track: its DJPlayCount goes up by one.
PlaySong ==
    /\ pc = "watch"
    /\ \E c \in DetectCids :
          /\ play_counts[c] < MaxPlays
          /\ play_counts' = [play_counts EXCEPT ![c] = @ + 1]
    /\ UNCHANGED <<pc, songs, prev_counts, last_known_song, detect_call>>
    /\ UNCHANGED matchVars /\ UNCHANGED orderVars /\ UNCHANGED cueVars
    /\ UNCHANGED syncVars /\ UNCHANGED normVars

\* The user adds a track to the playlist at TrackNo t: the tracks from t on
\* move down by one.
AddSong ==
    /\ pc = "watch"
    /\ Len(songs) < MaxSongs
    /\ \E t \in 1..(Len(songs) + 1), c \in DetectCids :
          songs' = Append(
              [k \in 1..Len(songs) |->
                  IF songs[k].TrackNo >= t
                  THEN [songs[k] EXCEPT !.TrackNo = @ + 1] ELSE songs[k]],
              [ID |-> Len(songs) + 1, TrackNo |-> t, cid |-> c])
    /\ UNCHANGED <<pc, play_counts, prev_counts, last_known_song, detect_call>>
    /\ UNCHANGED matchVars /\ UNCHANGED orderVars /\ UNCHANGED cueVars
    /\ UNCHANGED syncVars /\ UNCHANGED normVars

\* One turn of the loop: current, prev_counts = detect_current_song(...);
\* last_known_song = current.
DetectOk ==
    /\ pc = "watch"
    /\ LET r == detect_current_song(songs, play_counts, prev_counts,
                                    last_known_song)
       IN /\ ~r.raised
          /\ detect_call' = [made |-> TRUE, raised |-> FALSE,
                             songs |-> songs, counts |-> play_counts,
                             previous_counts |-> prev_counts,
                             last_known_song |-> last_known_song,
                             current |-> r.current,
                             new_counts |-> r.new_counts]
          /\ prev_counts' = r.new_counts
          /\ last_known_song' = r.current
    /\ UNCHANGED <<pc, songs, play_counts>>
    /\ UNCHANGED matchVars /\ UNCHANGED orderVars /\ UNCHANGED cueVars
    /\ UNCHANGED syncVars /\ UNCHANGED normVars

\* The call raises IndexError and the loop ends with it.
DetectRaises ==
    /\ pc = "watch"
    /\ LET r == detect_current_song(songs, play_counts, prev_counts,
                                    last_known_song)
       IN /\ r.raised
          /\ detect_call' = [made |-> TRUE, raised |-> TRUE,
                             songs |-> songs, counts |-> play_counts,
                             previous_counts |-> prev_counts,
                             last_known_song |-> last_known_song,
                             current |-> NoSong,
                             new_counts |-> r.new_counts]
    /\ pc' = "raised"
    /\ UNCHANGED <<songs, play_counts, prev_counts, last_known_song>>
    /\ UNCHANGED matchVars /\ UNCHANGED orderVars /\ UNCHANGED cueVars
    /\ UNCHANGED syncVars /\ UNCHANGED normVars

NextDetect == PlaySong \/ AddSong \/ DetectOk \/ DetectRaises

SpecDetect == InitDetect /\ [][NextDetect]_vars

(***************************************************************************)
(* main(): compare, then the optional reorder of the candidate playlist.   *)
(***************************************************************************)
\* sorted(matches, key=lambda t: t[0].track_no): Python's sort is stable,
\* so an element goes behind every earlier element whose key is not larger.
RECURSIVE InsertByTrackNo(_, _, _)
InsertByTrackNo(sorted, m, b) ==
    IF sorted = <<>> THEN <<m>>
    ELSE IF b[sorted[Len(sorted)][1]].track_no <= b[m[1]].track_no
         THEN Append(sorted, m)
         ELSE Append(InsertByTrackNo(SubSeq(sorted, 1, Len(sorted) - 1), m, b),
                     sorted[Len(sorted)])

RECURSIVE SortedByBaseTrackNo(_, _)
SortedByBaseTrackNo(ms, b) ==
    IF ms = <<>> THEN <<>>
    ELSE InsertByTrackNo(SortedByBaseTrackNo(SubSeq(ms, 1, Len(ms) - 1), b),
                         ms[Len(ms)], b)

\* Mutant: the pairs are taken in match order, not sorted.
DesiredIds_Unsorted(ms, b, c) ==
    [n \in 1..Len(ms) |-> c[ms[n][2]].song_pl_id]

\* Mutant: every slot of the candidate is planned, last slot first.
DesiredIds_EverySlot(ms, b, c) ==
    [n \in 1..Len(c) |-> c[Len(c) + 1 - n].song_pl_id]

\* desired_ids = [c.song_pl_id for (b, c) in desired]
DesiredIds(ms, b, c) ==
    LET desired == SortedByBaseTrackNo(ms, b)
    IN  [n \in 1..Len(desired) |-> c[desired[n][2]].song_pl_id]

\* pos = {sid: i + 1 for i, sid in enumerate(cand_ids_in_order)}
InitialPos(c) ==
    [sid \in {c[j].song_pl_id : j \in 1..Len(c)} |->
        CHOOSE j \in 1..Len(c) : c[j].song_pl_id = sid]

\* Mutant: the forward branch is missing, every move shifts [i, curr) up.
RippleAfterMove_BackwardOnly(p, sid, curr, i) ==
    LET shifted ==
            [o \in DOMAIN p |->
                IF i <= p[o] /\ p[o] < curr THEN p[o] + 1 ELSE p[o]]
    IN  [shifted EXCEPT ![sid] = i]

\* Mutant: only the moved slot gets its new position.
RippleAfterMove_NoShift(p, sid, curr, i) == [p EXCEPT ![sid] = i]

\* Mutant: the backward range is (i, curr] instead of [i, curr).
RippleAfterMove_OffByOne(p, sid, curr, i) ==
    LET shifted ==
            [o \in DOMAIN p |->
                IF i > curr
                THEN IF curr < p[o] /\ p[o] <= i THEN p[o] - 1 ELSE p[o]
                ELSE IF i < p[o] /\ p[o] <= curr THEN p[o] + 1 ELSE p[o]]
    IN  [shifted EXCEPT ![sid] = i]

\* The update of pos after a successful move of sid from curr to i.
RippleAfterMove(p, sid, curr, i) ==
    LET shifted ==
            [o \in DOMAIN p |->
                IF i > curr
                THEN IF curr < p[o] /\ p[o] <= i THEN p[o] - 1 ELSE p[o]
                ELSE IF i <= p[o] /\ p[o] < curr THEN p[o] + 1 ELSE p[o]]
    IN  [shifted EXCEPT ![sid] = i]

\* misaligned = [(b,c) for (b,c) in matches if b.track_no != c.track_no]
Misaligned(ms, b, c) ==
    SelectSeq(ms, LAMBDA m : b[m[1]].track_no # c[m[2]].track_no)

\* Mutant: the slot changes places with the slot at i.
StoreMove_Swap(st, sid, i) ==
    LET k == CHOOSE k \in 1..Len(st) : st[k].song_pl_id = sid
    IN  [n \in 1..Len(st) |->
            [(IF n = i THEN st[k] ELSE IF n = k THEN st[i] ELSE st[n])
                EXCEPT !.track_no = n]]

\* a.db.move_song_in_playlist(cand_playlist, sid, new_track_no=i) when it
\* succeeds: the slot leaves its place, enters at i, and the TrackNo of the
\* slots in between follow.
StoreMove(st, sid, i) ==
    LET k    == CHOOSE k \in 1..Len(st) : st[k].song_pl_id = sid
        rest == [n \in 1..(Len(st) - 1) |-> IF n < k THEN st[n] ELSE st[n + 1]]
        ins  == [n \in 1..Len(st) |->
                    IF n < i THEN rest[n] ELSE IF n = i THEN st[k] ELSE rest[n - 1]]
    IN  [n \in 1..Len(st) |-> [ins[n] EXCEPT !.track_no = n]]

Line(kind, sid, from, to) == [kind |-> kind, sid |-> sid, from |-> from, to |-> to]

\* The keys of the playlists a run of main() is tried on: three identities,
\* two of them sharing the file stem, two of them sharing the title.
MainKeys == {<<"a", "t", "f">>, <<"a", "u", "f">>, <<"", "t", "">>}

\* The candidate playlist: TrackNo 1..n.
CandPlaylist(ks) ==
    [j \in 1..Len(ks) |-> Rec(ks[j][1], ks[j][2], ks[j][3], j, SlotIdOf(j))]

\* The base playlist: TrackNo 1..n, or two neighbours (tie, tie+1) holding
\* the same TrackNo.
BasePlaylist(ks, tie) ==
    [i \in 1..Len(ks) |->
        Rec(ks[i][1], ks[i][2], ks[i][3],
            IF tie > 0 /\ i > tie THEN i - 1 ELSE i,
            SlotIdOf(i) + 100)]

(***************************************************************************)
(* Hot cues in main(): the comparison of each matched pair and the         *)
(* write-back.  Each track has its own DjmdContent row; the cues of a      *)
(* candidate track are filed under the ID of its slot.                     *)
(***************************************************************************)
\* c.hot_cue_ms of every candidate record, as _mk_rec read it.
CandCues(c, cs) == [j \in 1..Len(c) |-> cs[c[j].song_pl_id]]

\* Mutant: the placement comparison is not in an else branch.
RECURSIVE HotCueScanFrom_NoElse(_, _, _, _, _, _)
HotCueScanFrom_NoElse(n, ms, bcs, ccs, t, st) ==
    IF n > Len(ms) THEN st
    ELSE LET bms == bcs[ms[n][1]]
             cms == ccs[ms[n][2]]
             r   == _match_hot_cue_positions(bms, cms, t)
             st1 == IF Len(bms) # Len(cms)
                    THEN [st EXCEPT !.count = Append(@, ms[n])]
                    ELSE st
         IN  HotCueScanFrom_NoElse(n + 1, ms, bcs, ccs, t,
                 IF r.unmatched_base # <<>> \/ r.unmatched_cand # <<>>
                 THEN [st1 EXCEPT !.placement = Append(@, ms[n]),
                                  !.runs = Append(@, ms[n])]
                 ELSE [st1 EXCEPT !.runs = Append(@, ms[n])])

\* Lines 293-313: "for b,c in matches" from pair n on.  st = [count,
\* placement, runs]: the two mismatch lists and the pairs the comparator was
\* called for.  b.hot_cues is len(b.hot_cue_ms) (line 169).
RECURSIVE HotCueScanFrom(_, _, _, _, _, _)
HotCueScanFrom(n, ms, bcs, ccs, t, st) ==
    IF n > Len(ms) THEN st
    ELSE LET bms == bcs[ms[n][1]]
             cms == ccs[ms[n][2]]
         IN  IF Len(bms) # Len(cms)
             THEN HotCueScanFrom(n + 1, ms, bcs, ccs, t,
                      [st EXCEPT !.count = Append(@, ms[n])])
             ELSE LET r == _match_hot_cue_positions(bms, cms, t) IN
                  IF r.unmatched_base # <<>> \/ r.unmatched_cand # <<>>
                  THEN HotCueScanFrom(n + 1, ms, bcs, ccs, t,
                           [st EXCEPT !.placement = Append(@, ms[n]),
                                      !.runs = Append(@, ms[n])])
                  ELSE HotCueScanFrom(n + 1, ms, bcs, ccs, t,
                           [st EXCEPT !.runs = Append(@, ms[n])])

HotCueScan(ms, bcs, ccs, t) ==
    HotCueScanFrom(1, ms, bcs, ccs, t,
                   [count |-> <<>>, placement |-> <<>>, runs |-> <<>>])

FixOf(pair, reason) == [b |-> pair[1], c |-> pair[2], reason |-> reason]

\* Mutant: only the count mismatches are fixed.
ToFix_CountOnly(cm, pm, bcs) ==
    LET cf == SelectSeq(cm, LAMBDA pr : Len(bcs[pr[1]]) > 0)
    IN  [n \in 1..Len(cf) |-> FixOf(cf[n], "count")]

\* Lines 461-467: to_fix, the flagged pairs whose base has a hot cue.
ToFix(cm, pm, bcs) ==
    LET cf == SelectSeq(cm, LAMBDA pr : Len(bcs[pr[1]]) > 0)
        pf == SelectSeq(pm, LAMBDA pr : Len(bcs[pr[1]]) > 0)
    IN  [n \in 1..Len(cf) |-> FixOf(cf[n], "count")]
        \o [n \in 1..Len(pf) |-> FixOf(pf[n], "placement")]

\* _delete_existing_hot_cues: the hot cues of the content are gone.
_delete_existing_hot_cues(cs, cid) == [cs EXCEPT ![cid] = <<>>]

\* _clone_hot_cues_from_base_to_cand: delete, then one new cue for each hot
\* cue of the base track; bms are the base offsets, "created" is Len(bms).
_clone_hot_cues_from_base_to_cand(cs, bms, cid) ==
    [_delete_existing_hot_cues(cs, cid) EXCEPT ![cid] = bms]

\* What the open database can hold after the clone raised: nothing changed
\* (get_cue or delete raised), or the old cues are deleted and flushed and
\* only the first k copies were added.
CloneLeftovers(cs, bms, cid) ==
    {cs} \cup
    {[_delete_existing_hot_cues(cs, cid) EXCEPT ![cid] = SubSeq(bms, 1, k)] :
        k \in 0..(Len(bms) - 1)}

\* One a.db.commit call: where, how it ended, and how many clone calls came
\* before it.
CommitCall(phase, outcome) ==
    [phase |-> phase, outcome |-> outcome, after |-> Len(clone_calls)]

\* What a.db.commit can raise: RuntimeError (Rekordbox holds the database)
\* or another exception.
CommitFailures == {"locked", "error"}

\* Mutant: any_diffs without the misaligned list.
AnyDiffs_NoMisaligned ==
    \/ missing # <<>> \/ extra # <<>>
    \/ hotcue_count_mismatches # <<>> \/ hotcue_placement_mismatches # <<>>

\* Lines 318-321 and 498: any_diffs.
AnyDiffs ==
    \/ missing # <<>> \/ extra # <<>>
    \/ hotcue_count_mismatches # <<>> \/ hotcue_placement_mismatches # <<>>
    \/ Misaligned(matches, base, cand) # <<>>

BothKnown == {"base", "cand"}

RunIdle ==
    /\ base = <<>> /\ cand = <<>>
    /\ matches = <<>> /\ missing = <<>> /\ extra = <<>>
    /\ desired_ids = <<>> /\ pos = <<>> /\ idx = 0
    /\ moves_made = <<>> /\ move_calls = <<>> /\ reported = <<>>
    /\ commit_state = "none"
    /\ hotcue_count_mismatches = <<>> /\ hotcue_placement_mismatches = <<>>
    /\ placement_runs = <<>>
    /\ to_fix = <<>> /\ fix_idx = 0 /\ staged = 0
    /\ clone_calls = <<>> /\ commit_calls = <<>>
    /\ exit_status = NoStatus

\* A run of main() on tracks without hot cues and without --apply-hotcues.
Init ==
    /\ pc = "start"
    /\ run = 1
    /\ \E ks \in SeqsUpTo(MainKeys, MaxBase) :
         \E tie \in 0..(IF Len(ks) = 0 THEN 0 ELSE Len(ks) - 1) :
            db_base = BasePlaylist(ks, tie)
    /\ persisted \in {CandPlaylist(ks) : ks \in SeqsUpTo(MainKeys, MaxCand)}
    /\ store = persisted
    /\ title_fb \in BOOLEAN
    /\ apply_order \in BOOLEAN
    /\ force_order \in BOOLEAN
    /\ known = BothKnown
    /\ apply_hotcues = FALSE
    /\ hotcue_tolerance_ms = 0
    /\ base_cues = [i \in 1..Len(db_base) |-> <<>>]
    /\ cues_saved = [sid \in {persisted[j].song_pl_id : j \in 1..Len(persisted)} |-> <<>>]
    /\ cues = cues_saved
    /\ RunIdle
    /\ prev_run = NoPrevRun
    /\ CueIdle /\ NormIdle /\ DetectIdle

\* Mutant: an unknown playlist is read as an empty one and main goes on.
CompareNotFound_GoesOn ==
    /\ pc = "start"
    /\ known # BothKnown
    /\ base' = db_base
    /\ cand' = store
    /\ LET r == _match(db_base, store, title_fb) IN
          /\ matches' = r.matches
          /\ missing' = r.missing
          /\ extra'   = r.extra
    /\ pc' = IF apply_order THEN "order" ELSE "hotcues"
    /\ UNCHANGED <<run, db_base, title_fb, apply_order, force_order,
                   desired_ids, pos, idx, moves_made, move_calls, reported,
                   store, persisted, commit_state, prev_run>>
    /\ UNCHANGED cueVars /\ UNCHANGED syncVars /\ UNCHANGED normVars /\ UNCHANGED detectVars

\* Lines 272-277: get_playlist_songs_by_trackno raises ValueError for the
\* first name that is no playlist; main prints it and exits with status 2.
CompareNotFound ==
    /\ pc = "start"
    /\ known # BothKnown
    /\ reported' = Append(reported,
          IF "base" \notin known
          THEN Line("base_not_found", 0, 0, 0)
          ELSE Line("cand_not_found", 0, 0, 0))
    /\ exit_status' = 2
    /\ pc' = "done"
    /\ UNCHANGED <<run, db_base, apply_order, force_order, desired_ids, pos,
                   idx, moves_made, move_calls, store, persisted,
                   commit_state, prev_run>>
    /\ UNCHANGED <<known, apply_hotcues, hotcue_tolerance_ms,
                   base_cues, cues, cues_saved,
                   hotcue_count_mismatches, hotcue_placement_mismatches,
                   placement_runs, to_fix, fix_idx, staged, clone_calls,
                   commit_calls>>
    /\ UNCHANGED matchVars /\ UNCHANGED cueVars /\ UNCHANGED normVars /\ UNCHANGED detectVars

\* Lines 272-363: read both playlists, match them, compare the hot cues of
\* each pair, print the differences.
Compare ==
    /\ pc = "start"
    /\ known = BothKnown
    /\ base' = db_base
    /\ cand' = store
    /\ LET r == _match(db_base, store, title_fb)
           h == HotCueScan(r.matches, base_cues, CandCues(store, cues),
                           hotcue_tolerance_ms)
       IN /\ matches' = r.matches
          /\ missing' = r.missing
          /\ extra'   = r.extra
          /\ hotcue_count_mismatches' = h.count
          /\ hotcue_placement_mismatches' = h.placement
          /\ placement_runs' = h.runs
    /\ pc' = IF apply_order THEN "order" ELSE "hotcues"
    /\ UNCHANGED <<run, db_base, title_fb, apply_order, force_order,
                   desired_ids, pos, idx, moves_made, move_calls, reported,
                   store, persisted, commit_state, prev_run>>
    /\ UNCHANGED <<known, apply_hotcues, hotcue_tolerance_ms,
                   base_cues, cues, cues_saved,
                   to_fix, fix_idx, staged, clone_calls, commit_calls,
                   exit_status>>
    /\ UNCHANGED cueVars /\ UNCHANGED normVars /\ UNCHANGED detectVars

\* Lines 367-385: the membership warning, desired_ids, pos, moves_made.
OrderBegin ==
    /\ pc = "order"
    /\ reported' =
          IF (missing # <<>> \/ extra # <<>>) /\ ~force_order
          THEN Append(reported, Line("not_reordering", 0, 0, 0))
          ELSE reported
    /\ desired_ids' = DesiredIds(matches, base, cand)
    /\ pos' = InitialPos(cand)
    /\ moves_made' = <<>>
    /\ idx' = 1
    /\ pc' = "order_loop"
    /\ UNCHANGED <<run, db_base, apply_order, force_order, move_calls, store,
                   persisted, commit_state, prev_run>>
    /\ UNCHANGED matchVars /\ UNCHANGED cueVars
    /\ UNCHANGED syncVars /\ UNCHANGED normVars /\ UNCHANGED detectVars

\* Lines 386-392: the slot is unknown to pos or already at position i.
OrderSkip ==
    /\ pc = "order_loop"
    /\ idx <= Len(desired_ids)
    /\ LET sid == desired_ids[idx] IN
          sid \notin DOMAIN pos \/ pos[sid] = idx
    /\ idx' = idx + 1
    /\ UNCHANGED <<pc, run, db_base, apply_order, force_order, desired_ids,
                   pos, moves_made, move_calls, reported, store, persisted,
                   commit_state, prev_run>>
    /\ UNCHANGED matchVars /\ UNCHANGED cueVars
    /\ UNCHANGED syncVars /\ UNCHANGED normVars /\ UNCHANGED detectVars

\* Lines 394-398, 404-416: the move is announced, succeeds, and pos follows.
OrderMoveOk ==
    /\ pc = "order_loop"
    /\ idx <= Len(desired_ids)
    /\ LET sid == desired_ids[idx] IN
          /\ sid \in DOMAIN pos /\ pos[sid] # idx
          /\ LET curr == pos[sid] IN
                /\ reported' = Append(reported, Line("attempt", sid, curr, idx))
                /\ move_calls' = Append(move_calls, [sid |-> sid, to |-> idx, ok |-> TRUE])
                /\ store' = StoreMove(store, sid, idx)
                /\ pos' = RippleAfterMove(pos, sid, curr, idx)
                /\ moves_made' = Append(moves_made, [sid |-> sid, from |-> curr, to |-> idx])
    /\ idx' = idx + 1
    /\ UNCHANGED <<pc, run, db_base, apply_order, force_order, desired_ids,
                   persisted, commit_state, prev_run>>
    /\ UNCHANGED matchVars /\ UNCHANGED cueVars
    /\ UNCHANGED syncVars /\ UNCHANGED normVars /\ UNCHANGED detectVars

\* Mutant: pos is updated although the move raised.
OrderMoveFail_FakesMap ==
    /\ pc = "order_loop"
    /\ idx <= Len(desired_ids)
    /\ LET sid == desired_ids[idx] IN
          /\ sid \in DOMAIN pos /\ pos[sid] # idx
          /\ LET curr == pos[sid] IN
                /\ reported' = reported \o <<Line("attempt", sid, curr, idx),
                                             Line("failed", sid, curr, idx)>>
                /\ move_calls' = Append(move_calls, [sid |-> sid, to |-> idx, ok |-> FALSE])
                /\ pos' = RippleAfterMove(pos, sid, curr, idx)
    /\ idx' = idx + 1
    /\ UNCHANGED <<pc, run, db_base, apply_order, force_order, desired_ids,
                   moves_made, store, persisted, commit_state, prev_run>>
    /\ UNCHANGED matchVars /\ UNCHANGED cueVars
    /\ UNCHANGED syncVars /\ UNCHANGED normVars /\ UNCHANGED detectVars

\* Lines 394-402: the move is announced and raises; "continue".
OrderMoveFail ==
    /\ pc = "order_loop"
    /\ idx <= Len(desired_ids)
    /\ LET sid == desired_ids[idx] IN
          /\ sid \in DOMAIN pos /\ pos[sid] # idx
          /\ LET curr == pos[sid] IN
                /\ reported' = reported \o <<Line("attempt", sid, curr, idx),
                                             Line("failed", sid, curr, idx)>>
                /\ move_calls' = Append(move_calls, [sid |-> sid, to |-> idx, ok |-> FALSE])
    /\ idx' = idx + 1
    /\ UNCHANGED <<pc, run, db_base, apply_order, force_order, desired_ids,
                   pos, moves_made, store, persisted, commit_state, prev_run>>
    /\ UNCHANGED matchVars /\ UNCHANGED cueVars
    /\ UNCHANGED syncVars /\ UNCHANGED normVars /\ UNCHANGED detectVars

\* Lines 418-423: the list of moves made, or "No TrackNo moves needed".
OrderReport ==
    /\ pc = "order_loop"
    /\ idx > Len(desired_ids)
    /\ reported' =
          IF moves_made # <<>>
          THEN reported \o
               [n \in 1..Len(moves_made) |->
                   Line("applied", moves_made[n].sid, moves_made[n].from, moves_made[n].to)]
          ELSE Append(reported, Line("none_needed", 0, 0, 0))
    /\ pc' = "order_commit"
    /\ UNCHANGED <<run, db_base, apply_order, force_order, desired_ids, pos,
                   idx, moves_made, move_calls, store, persisted,
                   commit_state, prev_run>>
    /\ UNCHANGED matchVars /\ UNCHANGED cueVars
    /\ UNCHANGED syncVars /\ UNCHANGED normVars /\ UNCHANGED detectVars

\* Lines 425-428: a.db.commit(autoinc=True) succeeds: everything the open
\* database holds is saved.
OrderCommitOk ==
    /\ pc = "order_commit"
    /\ persisted' = store
    /\ cues_saved' = cues
    /\ commit_state' = "ok"
    /\ commit_calls' = Append(commit_calls, CommitCall("order", "ok"))
    /\ pc' = "post_verify"
    /\ UNCHANGED <<run, db_base, apply_order, force_order, desired_ids, pos,
                   idx, moves_made, move_calls, reported, store, prev_run>>
    /\ UNCHANGED <<known, apply_hotcues, hotcue_tolerance_ms,
                   base_cues, cues,
                   hotcue_count_mismatches, hotcue_placement_mismatches,
                   placement_runs, to_fix, fix_idx, staged, clone_calls,
                   exit_status>>
    /\ UNCHANGED matchVars /\ UNCHANGED cueVars /\ UNCHANGED normVars /\ UNCHANGED detectVars

\* Lines 429-435: a.db.commit raises; the failure is printed, main goes on.
OrderCommitFail ==
    /\ pc = "order_commit"
    /\ commit_state' = "failed"
    /\ \E outcome \in CommitFailures :
          commit_calls' = Append(commit_calls, CommitCall("order", outcome))
    /\ pc' = "post_verify"
    /\ UNCHANGED <<run, db_base, apply_order, force_order, desired_ids, pos,
                   idx, moves_made, move_calls, reported, store, persisted,
                   prev_run>>
    /\ UNCHANGED <<known, apply_hotcues, hotcue_tolerance_ms,
                   base_cues, cues, cues_saved,
                   hotcue_count_mismatches, hotcue_placement_mismatches,
                   placement_runs, to_fix, fix_idx, staged, clone_calls,
                   exit_status>>
    /\ UNCHANGED matchVars /\ UNCHANGED cueVars /\ UNCHANGED normVars /\ UNCHANGED detectVars

\* Lines 437-453: the candidate is read again and matched again; the outcome
\* is printed only.
PostVerify ==
    /\ pc = "post_verify"
    /\ LET r == _match(base, store, title_fb) IN
          reported' = Append(reported,
              IF Misaligned(r.matches, base, store) = <<>>
                 /\ r.missing = <<>> /\ r.extra = <<>>
              THEN Line("verify_ok", 0, 0, 0)
              ELSE Line("verify_differs", 0, 0, 0))
    /\ pc' = "hotcues"
    /\ UNCHANGED <<run, db_base, apply_order, force_order, desired_ids, pos,
                   idx, moves_made, move_calls, store, persisted,
                   commit_state, prev_run>>
    /\ UNCHANGED matchVars /\ UNCHANGED cueVars
    /\ UNCHANGED syncVars /\ UNCHANGED normVars /\ UNCHANGED detectVars

\* Line 460: without --apply-hotcues nothing is written back.
HotCuesOff ==
    /\ pc = "hotcues"
    /\ ~apply_hotcues
    /\ pc' = "exit"
    /\ UNCHANGED orderVars /\ UNCHANGED matchVars /\ UNCHANGED cueVars
    /\ UNCHANGED syncVars /\ UNCHANGED normVars /\ UNCHANGED detectVars

\* Lines 460-470: to_fix; with an empty to_fix the phase is over.
HotCuesBegin ==
    /\ pc = "hotcues"
    /\ apply_hotcues
    /\ to_fix' = ToFix(hotcue_count_mismatches, hotcue_placement_mismatches,
                       base_cues)
    /\ staged' = 0
    /\ fix_idx' = IF to_fix' = <<>> THEN 0 ELSE 1
    /\ pc' = IF to_fix' = <<>> THEN "exit" ELSE "clone_loop"
    /\ UNCHANGED <<known, apply_hotcues, hotcue_tolerance_ms,
                   base_cues, cues, cues_saved,
                   hotcue_count_mismatches, hotcue_placement_mismatches,
                   placement_runs, clone_calls, commit_calls, exit_status>>
    /\ UNCHANGED orderVars /\ UNCHANGED matchVars /\ UNCHANGED cueVars
    /\ UNCHANGED normVars /\ UNCHANGED detectVars

\* Mutant: the commit is inside the loop, after each staged pair.
CloneOk_Commits ==
    /\ pc = "clone_loop"
    /\ fix_idx <= Len(to_fix)
    /\ LET f   == to_fix[fix_idx]
           bms == base_cues[f.b]
           cid == cand[f.c].song_pl_id
       IN /\ cues' = _clone_hot_cues_from_base_to_cand(cues, bms, cid)
          /\ staged' = staged + Len(bms)
          /\ clone_calls' = Append(clone_calls, [b |-> f.b, sid |-> cid, ok |-> TRUE])
          /\ reported' = Append(reported, Line("staged", cid, Len(cues[cid]), Len(bms)))
          /\ commit_calls' =
                Append(commit_calls,
                       [phase |-> "hotcues", outcome |-> "ok",
                        after |-> Len(clone_calls) + 1])
          /\ persisted' = store
          /\ cues_saved' = cues'
    /\ fix_idx' = fix_idx + 1
    /\ UNCHANGED <<pc, run, db_base, apply_order, force_order, desired_ids, pos,
                   idx, moves_made, move_calls, store, commit_state,
                   prev_run>>
    /\ UNCHANGED <<known, apply_hotcues, hotcue_tolerance_ms,
                   base_cues,
                   hotcue_count_mismatches, hotcue_placement_mismatches,
                   placement_runs, to_fix, exit_status>>
    /\ UNCHANGED matchVars /\ UNCHANGED cueVars /\ UNCHANGED normVars /\ UNCHANGED detectVars

\* Lines 472-479: the clone of one pair is staged in the open database.
CloneOk ==
    /\ pc = "clone_loop"
    /\ fix_idx <= Len(to_fix)
    /\ LET f   == to_fix[fix_idx]
           bms == base_cues[f.b]
           cid == cand[f.c].song_pl_id
       IN /\ cues' = _clone_hot_cues_from_base_to_cand(cues, bms, cid)
          /\ staged' = staged + Len(bms)
          /\ clone_calls' = Append(clone_calls, [b |-> f.b, sid |-> cid, ok |-> TRUE])
          /\ reported' = Append(reported, Line("staged", cid, Len(cues[cid]), Len(bms)))
    /\ fix_idx' = fix_idx + 1
    /\ UNCHANGED <<pc, run, db_base, apply_order, force_order, desired_ids, pos,
                   idx, moves_made, move_calls, store, persisted, commit_state,
                   prev_run>>
    /\ UNCHANGED <<known, apply_hotcues, hotcue_tolerance_ms,
                   base_cues, cues_saved,
                   hotcue_count_mismatches, hotcue_placement_mismatches,
                   placement_runs, to_fix, commit_calls, exit_status>>
    /\ UNCHANGED matchVars /\ UNCHANGED cueVars /\ UNCHANGED normVars /\ UNCHANGED detectVars

\* Mutant: the exception of a clone ends the loop.
CloneFail_EndsLoop ==
    /\ pc = "clone_loop"
    /\ fix_idx <= Len(to_fix)
    /\ LET f   == to_fix[fix_idx]
           bms == base_cues[f.b]
           cid == cand[f.c].song_pl_id
       IN /\ cues' \in CloneLeftovers(cues, bms, cid)
          /\ clone_calls' = Append(clone_calls, [b |-> f.b, sid |-> cid, ok |-> FALSE])
          /\ reported' = Append(reported, Line("clone_failed", cid, 0, 0))
    /\ fix_idx' = Len(to_fix) + 1
    /\ UNCHANGED <<pc, run, db_base, apply_order, force_order, desired_ids, pos,
                   idx, moves_made, move_calls, store, persisted, commit_state,
                   prev_run>>
    /\ UNCHANGED <<known, apply_hotcues, hotcue_tolerance_ms,
                   base_cues, cues_saved,
                   hotcue_count_mismatches, hotcue_placement_mismatches,
                   placement_runs, to_fix, staged, commit_calls, exit_status>>
    /\ UNCHANGED matchVars /\ UNCHANGED cueVars /\ UNCHANGED normVars /\ UNCHANGED detectVars

\* Lines 476-481: the clone of one pair raises; the failure is printed and
\* the loop goes on.  What the failed call had already changed stays in the
\* open database.
CloneFail ==
    /\ pc = "clone_loop"
    /\ fix_idx <= Len(to_fix)
    /\ LET f   == to_fix[fix_idx]
           bms == base_cues[f.b]
           cid == cand[f.c].song_pl_id
       IN /\ cues' \in CloneLeftovers(cues, bms, cid)
          /\ clone_calls' = Append(clone_calls, [b |-> f.b, sid |-> cid, ok |-> FALSE])
          /\ reported' = Append(reported, Line("clone_failed", cid, 0, 0))
    /\ fix_idx' = fix_idx + 1
    /\ UNCHANGED <<pc, run, db_base, apply_order, force_order, desired_ids, pos,
                   idx, moves_made, move_calls, store, persisted, commit_state,
                   prev_run>>
    /\ UNCHANGED <<known, apply_hotcues, hotcue_tolerance_ms,
                   base_cues, cues_saved,
                   hotcue_count_mismatches, hotcue_placement_mismatches,
                   placement_runs, to_fix, staged, commit_calls, exit_status>>
    /\ UNCHANGED matchVars /\ UNCHANGED cueVars /\ UNCHANGED normVars /\ UNCHANGED detectVars

\* Lines 483-486: staged > 0 and a.db.commit succeeds: everything the open
\* database holds is saved.
HotCuesCommitOk ==
    /\ pc = "clone_loop"
    /\ fix_idx > Len(to_fix)
    /\ staged > 0
    /\ persisted' = store
    /\ cues_saved' = cues
    /\ commit_calls' = Append(commit_calls, CommitCall("hotcues", "ok"))
    /\ pc' = "exit"
    /\ UNCHANGED <<run, db_base, apply_order, force_order, desired_ids, pos,
                   idx, moves_made, move_calls, reported, store, commit_state,
                   prev_run>>
    /\ UNCHANGED <<known, apply_hotcues, hotcue_tolerance_ms,
                   base_cues, cues,
                   hotcue_count_mismatches, hotcue_placement_mismatches,
                   placement_runs, to_fix, fix_idx, staged, clone_calls,
                   exit_status>>
    /\ UNCHANGED matchVars /\ UNCHANGED cueVars /\ UNCHANGED normVars /\ UNCHANGED detectVars

\* Lines 487-493: staged > 0 and a.db.commit raises; the failure is printed.
HotCuesCommitFail ==
    /\ pc = "clone_loop"
    /\ fix_idx > Len(to_fix)
    /\ staged > 0
    /\ \E outcome \in CommitFailures :
          commit_calls' = Append(commit_calls, CommitCall("hotcues", outcome))
    /\ pc' = "exit"
    /\ UNCHANGED <<run, db_base, apply_order, force_order, desired_ids, pos,
                   idx, moves_made, move_calls, reported, store, persisted,
                   commit_state, prev_run>>
    /\ UNCHANGED <<known, apply_hotcues, hotcue_tolerance_ms,
                   base_cues, cues, cues_saved,
                   hotcue_count_mismatches, hotcue_placement_mismatches,
                   placement_runs, to_fix, fix_idx, staged, clone_calls,
                   exit_status>>
    /\ UNCHANGED matchVars /\ UNCHANGED cueVars /\ UNCHANGED normVars /\ UNCHANGED detectVars

\* Lines 494-495: staged = 0, "Nothing to commit".
HotCuesNothing ==
    /\ pc = "clone_loop"
    /\ fix_idx > Len(to_fix)
    /\ staged = 0
    /\ reported' = Append(reported, Line("nothing_to_commit", 0, 0, 0))
    /\ pc' = "exit"
    /\ UNCHANGED <<run, db_base, apply_order, force_order, desired_ids, pos,
                   idx, moves_made, move_calls, store, persisted, commit_state,
                   prev_run>>
    /\ UNCHANGED matchVars /\ UNCHANGED cueVars
    /\ UNCHANGED syncVars /\ UNCHANGED normVars /\ UNCHANGED detectVars

\* Lines 497-505: the exit status, from the differences found before
\* anything was applied.
Exit ==
    /\ pc = "exit"
    /\ exit_status' = IF AnyDiffs THEN 1 ELSE 0
    /\ pc' = "done"
    /\ UNCHANGED <<run, db_base, apply_order, force_order, desired_ids, pos,
                   idx, moves_made, move_calls, reported, store, persisted,
                   commit_state, prev_run>>
    /\ UNCHANGED <<known, apply_hotcues, hotcue_tolerance_ms,
                   base_cues, cues, cues_saved,
                   hotcue_count_mismatches, hotcue_placement_mismatches,
                   placement_runs, to_fix, fix_idx, staged, clone_calls,
                   commit_calls>>
    /\ UNCHANGED matchVars /\ UNCHANGED cueVars /\ UNCHANGED normVars /\ UNCHANGED detectVars

\* The run that ended reordered the candidate: every move succeeded and the
\* commit went through.
RunWasClean ==
    /\ apply_order
    /\ \A n \in 1..Len(move_calls) : move_calls[n].ok
    /\ commit_state = "ok"

\* Lines 507-508: the same command is run again after a reorder that was
\* applied and committed; a new RekordboxPlaylistAnalyzer sees what was
\* committed.  prev_run keeps the pairs of the run that ended.
RunAgain ==
    /\ pc = "done"
    /\ run < MaxRuns
    /\ RunWasClean
    /\ run' = run + 1
    /\ prev_run' =
          [clean |-> TRUE,
           pairs |-> {<<matches[n][1], cand[matches[n][2]].song_pl_id>> :
                         n \in 1..Len(matches)}]
    /\ store' = persisted
    /\ base' = <<>> /\ cand' = <<>>
    /\ matches' = <<>> /\ missing' = <<>> /\ extra' = <<>>
    /\ desired_ids' = <<>> /\ pos' = <<>> /\ idx' = 0
    /\ moves_made' = <<>> /\ move_calls' = <<>> /\ reported' = <<>>
    /\ commit_state' = "none"
    /\ cues' = cues_saved
    /\ hotcue_count_mismatches' = <<>> /\ hotcue_placement_mismatches' = <<>>
    /\ placement_runs' = <<>>
    /\ to_fix' = <<>> /\ fix_idx' = 0 /\ staged' = 0
    /\ clone_calls' = <<>> /\ commit_calls' = <<>>
    /\ exit_status' = NoStatus
    /\ pc' = "start"
    /\ UNCHANGED <<db_base, title_fb, apply_order, force_order, persisted>>
    /\ UNCHANGED <<known, apply_hotcues, hotcue_tolerance_ms,
                   base_cues, cues_saved>>
    /\ UNCHANGED cueVars /\ UNCHANGED normVars /\ UNCHANGED detectVars

Next ==
    \/ Compare
    \/ OrderBegin
    \/ OrderSkip
    \/ OrderMoveOk
    \/ OrderMoveFail
    \/ OrderReport
    \/ OrderCommitOk
    \/ OrderCommitFail
    \/ PostVerify
    \/ HotCuesOff
    \/ Exit
    \/ RunAgain

Spec == Init /\ [][Next]_vars

(***************************************************************************)
(* main() on short playlists whose tracks have hot cues, with and without  *)
(* --apply-order and --apply-hotcues, and with playlist names the database *)
(* does not know.                                                          *)
(***************************************************************************)
SyncKeys == {<<"a", "t", "f">>, <<"a", "u", "g">>}

SyncMs == {0, 2}

SyncTols == {1, 2}

IsRising(s) == \A k \in 1..(Len(s) - 1) : s[k] < s[k + 1]

SyncCueLists == {s \in SeqsUpTo(SyncMs, MaxSyncCues) : IsRising(s)}

\* A playlist the database does not know has no songs to read.
InitSync ==
    /\ pc = "start"
    /\ run = 1
    /\ known \in SUBSET BothKnown
    /\ \E ks \in SeqsUpTo(SyncKeys, MaxSync) :
          /\ "base" \notin known => ks = <<>>
          /\ db_base = BasePlaylist(ks, 0)
    /\ base_cues \in [1..Len(db_base) -> SyncCueLists]
    /\ \E ks \in SeqsUpTo(SyncKeys, MaxSync) :
          /\ "cand" \notin known => ks = <<>>
          /\ persisted = CandPlaylist(ks)
    /\ store = persisted
    /\ cues_saved \in [{persisted[j].song_pl_id : j \in 1..Len(persisted)} -> SyncCueLists]
    /\ cues = cues_saved
    /\ title_fb = TRUE
    /\ apply_order \in BOOLEAN
    /\ force_order = FALSE
    /\ apply_hotcues \in BOOLEAN
    /\ hotcue_tolerance_ms \in SyncTols
    /\ RunIdle
    /\ prev_run = NoPrevRun
    /\ CueIdle /\ NormIdle /\ DetectIdle

NextSync ==
    \/ CompareNotFound
    \/ Compare
    \/ OrderBegin
    \/ OrderSkip
    \/ OrderMoveOk
    \/ OrderMoveFail
    \/ OrderReport
    \/ OrderCommitOk
    \/ OrderCommitFail
    \/ PostVerify
    \/ HotCuesOff
    \/ HotCuesBegin
    \/ CloneOk
    \/ CloneFail
    \/ HotCuesCommitOk
    \/ HotCuesCommitFail
    \/ HotCuesNothing
    \/ Exit

SpecSync == InitSync /\ [][NextSync]_vars

(***************************************************************************)
(* Properties.                                                             *)
(***************************************************************************)
Count(seq, x) == Cardinality({n \in 1..Len(seq) : seq[n] = x})

MatchedBase == [n \in 1..Len(matches) |-> matches[n][1]]
MatchedCand == [n \in 1..Len(matches) |-> matches[n][2]]

\* C1: _match partitions its inputs: every base record is in exactly one of
\* the matched pairs and missing, exactly once, and every candidate record is
\* in exactly one of the matched pairs and extra, exactly once; nothing else
\* is in the result.
C1_MatchPartitions ==
    pc = "match_out" =>
        /\ \A i \in 1..Len(base) : Count(MatchedBase, i) + Count(missing, i) = 1
        /\ \A j \in 1..Len(cand) : Count(MatchedCand, j) + Count(extra, j) = 1
        /\ Range(MatchedBase) \cup Range(missing) \subseteq 1..Len(base)
        /\ Range(MatchedCand) \cup Range(extra) \subseteq 1..Len(cand)

C1_Witness ==
    /\ pc = "match_out"
    /\ Len(base) = 2 /\ Len(cand) = 2
    /\ Len(matches) = 1 /\ Len(missing) = 1 /\ Len(extra) = 1
    /\ IdentityKey(cand[1]) = IdentityKey(cand[2])

\* The reorder loop of this run is over.
LoopDone ==
    /\ apply_order
    /\ pc \in {"order_commit", "post_verify", "hotcues", "clone_loop", "exit", "done"}
    /\ exit_status # 2

AllMovesOk == \A n \in 1..Len(move_calls) : move_calls[n].ok

MatchedSids == {cand[matches[n][2]].song_pl_id : n \in 1..Len(matches)}

ExtraSids == {cand[extra[n]].song_pl_id : n \in 1..Len(extra)}

\* The place in matches of the pair whose candidate holds slot sid.
PairOfSid(sid) == CHOOSE n \in 1..Len(matches) : cand[matches[n][2]].song_pl_id = sid

BaseTrackNoOfSid(sid) == base[matches[PairOfSid(sid)][1]].track_no

\* C2: after a reorder in which every move succeeded, the first N slots of
\* the candidate playlist are the N matched slots, in ascending order of the
\* TrackNo of their base record, equal TrackNo in the order of matches.
C2_MatchedInBaseOrder ==
    (LoopDone /\ AllMovesOk) =>
        LET N == Len(matches) IN
        /\ Len(store) >= N
        /\ \A k \in 1..N :
              /\ store[k].song_pl_id \in MatchedSids
              /\ store[k].track_no = k
        /\ \A k, l \in 1..N :
              k < l =>
                 LET sk == store[k].song_pl_id
                     sl == store[l].song_pl_id
                 IN  \/ BaseTrackNoOfSid(sk) < BaseTrackNoOfSid(sl)
                     \/ /\ BaseTrackNoOfSid(sk) = BaseTrackNoOfSid(sl)
                        /\ PairOfSid(sk) < PairOfSid(sl)

\* Two moves were made, and two base records of equal TrackNo were matched
\* in the order opposite to their order in base.
C2_Witness ==
    /\ LoopDone /\ AllMovesOk
    /\ Len(move_calls) >= 2
    /\ \E n, m \in 1..Len(matches) :
          /\ n < m
          /\ matches[n][1] > matches[m][1]
          /\ base[matches[n][1]].track_no = base[matches[m][1]].track_no

\* The longest strictly ascending subsequence of a sequence of numbers.
LongestAscending(seq) ==
    LET asc == {S \in SUBSET (1..Len(seq)) :
                   \A a, b \in S : a < b => seq[a] < seq[b]}
    IN  CHOOSE n \in 0..Len(seq) :
           /\ \E S \in asc : Cardinality(S) = n
           /\ \A S \in asc : Cardinality(S) <= n

RankIn(seq, x) == CHOOSE n \in 1..Len(seq) : seq[n] = x

\* The least number of single-slot moves after which the playlist order c
\* starts with the slots of want, in that order.  The slots left alone keep
\* their mutual order, so they are ascending wanted slots followed by
\* unwanted ones.
MinMoves(c, want) ==
    LET M       == Len(c)
        ids     == [j \in 1..M |-> c[j].song_pl_id]
        wanted  == Range(want)
        kept(n) ==
            LET head == SelectSeq(SubSeq(ids, 1, n), LAMBDA x : x \in wanted)
                tail == SelectSeq(SubSeq(ids, n + 1, M), LAMBDA x : x \notin wanted)
            IN  LongestAscending([k \in 1..Len(head) |-> RankIn(want, head[k])])
                + Len(tail)
    IN  M - (CHOOSE best \in 0..M :
                /\ \E n \in 0..M : kept(n) = best
                /\ \A n \in 0..M : kept(n) <= best)

\* C3 as claimed: the number of moves invoked is the least number of moves
\* that brings the matched slots into base order.
C3_MovesAreMinimal ==
    (LoopDone /\ AllMovesOk) => Len(move_calls) = MinMoves(cand, desired_ids)

\* C3, amended: when every move succeeds the planner invokes at least the
\* least number of moves and at most one move for each matched slot, never
\* more than the playlist length less one; it is not always the least number.
C3_MovesBounded ==
    (LoopDone /\ AllMovesOk) =>
        /\ Len(move_calls) >= MinMoves(cand, desired_ids)
        /\ Len(move_calls) <= Len(matches)
        /\ Len(cand) > 0 => Len(move_calls) <= Len(cand) - 1

C3_Witness ==
    /\ LoopDone /\ AllMovesOk
    /\ Len(move_calls) = 2
    /\ MinMoves(cand, desired_ids) = 1

IsMoveCall == Len(move_calls') = Len(move_calls) + 1

\* C4: a step in which the move raises leaves pos as it was and goes on to
\* the next target position, still in the loop.
C4_FailedMoveKeepsPos ==
    [][(IsMoveCall /\ ~move_calls'[Len(move_calls')].ok) =>
          /\ pos' = pos
          /\ idx' = idx + 1
          /\ pc' = "order_loop"
          /\ desired_ids' = desired_ids]_vars

\* A move was decided after an earlier one had failed.
C4_Witness ==
    /\ pc = "order_loop"
    /\ \E n, m \in 1..Len(move_calls) : n < m /\ ~move_calls[n].ok

\* C5: a step in which slot sid is moved from oldPos to i sets pos[sid] to i,
\* lowers by one every other slot in (oldPos, i] when i > oldPos, raises by
\* one every other slot in [i, oldPos) when i < oldPos, and keeps the rest.
C5_RippleOnSuccess ==
    [][(IsMoveCall /\ move_calls'[Len(move_calls')].ok) =>
          LET sid    == move_calls'[Len(move_calls')].sid
              i      == move_calls'[Len(move_calls')].to
              oldPos == pos[sid]
          IN  /\ DOMAIN pos' = DOMAIN pos
              /\ pos'[sid] = i
              /\ \A o \in DOMAIN pos \ {sid} :
                    pos'[o] =
                       IF i > oldPos /\ oldPos < pos[o] /\ pos[o] <= i
                       THEN pos[o] - 1
                       ELSE IF i < oldPos /\ i <= pos[o] /\ pos[o] < oldPos
                            THEN pos[o] + 1
                            ELSE pos[o]]_vars

\* A slot was moved forward across another slot, and one slot kept its place.
C5_Witness ==
    /\ pc = "order_loop"
    /\ Len(moves_made) >= 1
    /\ LET mv == moves_made[Len(moves_made)] IN
          /\ mv.to = mv.from + 1
          /\ idx = mv.to + 1
          /\ Len(cand) = 3
          /\ \E o \in DOMAIN pos : o # mv.sid /\ pos[o] = mv.from

\* The pairs of this run, by base index and candidate slot.
CurrentPairs == {<<matches[n][1], cand[matches[n][2]].song_pl_id>> : n \in 1..Len(matches)}

\* C6 as claimed: when the reorder is run a second time after a run whose
\* moves all succeeded and were committed, the second run invokes no move,
\* whether or not records are missing or extra.
C6_SecondRunMovesNothing ==
    (run >= 2 /\ prev_run.clean /\ LoopDone) => move_calls = <<>>

\* What holds instead: the second run invokes no move when its matching
\* pairs the records the first run paired.  It does move when _match, popping
\* the last candidate of a bucket, pairs records of equal key the other way
\* round once their order has changed.
SecondRunSamePairsMovesNothing ==
    (run >= 2 /\ prev_run.clean /\ LoopDone /\ CurrentPairs = prev_run.pairs) =>
        move_calls = <<>>

\* C7: every move is invoked for the slot of a matched candidate record,
\* never for the slot of an extra one, and for no slot twice in a run.
C7_OnlyMatchedSlotsMoved ==
    /\ \A n \in 1..Len(move_calls) :
          /\ move_calls[n].sid \in MatchedSids
          /\ move_calls[n].sid \notin ExtraSids
    /\ \A n, m \in 1..Len(move_calls) :
          move_calls[n].sid = move_calls[m].sid => n = m

C7_Witness ==
    /\ Len(move_calls) >= 2
    /\ extra # <<>>
    /\ \E n \in 1..Len(move_calls) : ~move_calls[n].ok

\* C8 as claimed: with --apply-order and without --force-order, no move is
\* invoked when a record is missing or extra.
C8_NoMoveOnMembershipDiff ==
    (apply_order /\ ~force_order /\ (missing # <<>> \/ extra # <<>>)) =>
        move_calls = <<>>

\* The list printed when the loop is over (lines 418-421).
FinalList == SelectSeq(reported, LAMBDA l : l.kind \in {"applied", "not_applied"})

\* C9 as claimed: when the reorder phase is over the list of moves it prints
\* holds every move attempted, tagged as success or failure.
C9_EveryAttemptListed ==
    LoopDone =>
        \A n \in 1..Len(move_calls) :
            \E m \in 1..Len(FinalList) :
                /\ FinalList[m].sid = move_calls[n].sid
                /\ FinalList[m].to = move_calls[n].to
                /\ (FinalList[m].kind = "applied") <=> move_calls[n].ok

(***************************************************************************)
(* The pairing compareMarkers is specified to make, stated by choice       *)
(* rather than by scanning.                                                *)
(***************************************************************************)
\* The candidate index for base value b when the indices in taken are
\* consumed: among the free candidates within tol, least difference first,
\* leftmost among equals; NoIdx when none is within tol.
NearestFree(b, cms, tol, taken) ==
    LET near == {j \in (1..Len(cms)) \ taken : Abs(cms[j] - b) <= tol} IN
    IF near = {} THEN NoIdx
    ELSE CHOOSE j \in near :
            \A j2 \in near :
               \/ Abs(cms[j] - b) < Abs(cms[j2] - b)
               \/ (Abs(cms[j] - b) = Abs(cms[j2] - b) /\ j <= j2)

\* choice[k]: the candidate index paired with base index k, for k up to n.
RECURSIVE GreedyChoice(_, _, _, _)
GreedyChoice(n, bms, cms, tol) ==
    IF n = 0 THEN <<>>
    ELSE LET before == GreedyChoice(n - 1, bms, cms, tol)
         IN  Append(before, NearestFree(bms[n], cms, tol, Range(before) \ {NoIdx}))

GreedyResult(bms, cms, tol) ==
    LET choice == GreedyChoice(Len(bms), bms, cms, tol)
        hit    == SelectSeq([k \in 1..Len(bms) |-> k], LAMBDA k : choice[k] # NoIdx)
        miss   == SelectSeq([k \in 1..Len(bms) |-> k], LAMBDA k : choice[k] = NoIdx)
        free   == SelectSeq([j \in 1..Len(cms) |-> j], LAMBDA j : j \notin Range(choice))
    IN  [matched_pairs  |-> [n \in 1..Len(hit) |-> <<bms[hit[n]], cms[choice[hit[n]]]>>],
         unmatched_base |-> [n \in 1..Len(miss) |-> bms[miss[n]]],
         unmatched_cand |-> [n \in 1..Len(free) |-> cms[free[n]]]]

\* C10: the comparator takes the base values in order, pairs each with the
\* free candidate value of least difference within the tolerance, the
\* leftmost on equal difference, and consumes it; base values without one and
\* the candidates left over are reported unmatched, in order.
C10_GreedyNearest ==
    pc = "cues_out" => hc_result = GreedyResult(base_ms, cand_ms, tol_ms)

\* ([1000,5000],[1050,5200], tol 100) in small numbers: the first pair is
\* within the tolerance, the second is not.
C10_Witness ==
    /\ pc = "cues_out"
    /\ base_ms = <<0, 3>> /\ cand_ms = <<1, 5>> /\ tol_ms = 1
    /\ hc_result = [matched_pairs  |-> << <<0, 1>> >>,
                    unmatched_base |-> <<3>>,
                    unmatched_cand |-> <<5>>]

(***************************************************************************)
(* _match and the order of the candidate list.                             *)
(***************************************************************************)
Perms(n) == {p \in [1..n -> 1..n] : \A x, y \in 1..n : x # y => p[x] # p[y]}

\* The same candidate records handed to _match in the order p.
Permuted(c, p) == [j \in 1..Len(c) |-> c[p[j]]]

\* A result of _match over candidate list c, its records named by what they
\* are (base index, candidate slot) and not by where they stand in c.
OutcomeOf(r, c) ==
    [pairs   |-> {<<r.matches[n][1], c[r.matches[n][2]].song_pl_id>> :
                     n \in 1..Len(r.matches)},
     missing |-> Range(r.missing),
     extra   |-> {c[r.extra[n]].song_pl_id : n \in 1..Len(r.extra)}]

ThisOutcome ==
    OutcomeOf([matches |-> matches, missing |-> missing, extra |-> extra], cand)

\* No two candidate records share a key a pass looks up.
CandKeysDistinct ==
    \A j, k \in 1..Len(cand) :
       j # k =>
          /\ IdentityKey(cand[j]) # IdentityKey(cand[k])
          /\ (cand[j].fb_norm = "" \/ cand[j].fb_norm # cand[k].fb_norm)
          /\ (title_fb =>
                 (cand[j].title_norm = "" \/ cand[j].title_norm # cand[k].title_norm))

\* C12 as claimed: for the same base, every order of the candidate records
\* gives the same matched pairs, the same missing and the same extra records.
C12_CandOrderFree ==
    pc = "match_out" =>
       \A p \in Perms(Len(cand)) :
          OutcomeOf(_match(base, Permuted(cand, p), title_fb), Permuted(cand, p))
             = ThisOutcome

\* C12 amended: the order of the candidate records does not matter when no
\* two of them share an identity key, a non-empty filename key or (with the
\* title fallback on) a non-empty title key.
C12_DistinctKeysOrderFree ==
    (pc = "match_out" /\ CandKeysDistinct) =>
       \A p \in Perms(Len(cand)) :
          OutcomeOf(_match(base, Permuted(cand, p), title_fb), Permuted(cand, p))
             = ThisOutcome

\* Two candidates with different keys, one matched in pass 1 and one in a
\* later pass.
C12_Witness ==
    /\ pc = "match_out" /\ CandKeysDistinct
    /\ Len(cand) = 2 /\ Len(matches) = 2
    /\ \E n \in 1..2 :
          IdentityKey(base[matches[n][1]]) # IdentityKey(cand[matches[n][2]])

(***************************************************************************)
(* _match on playlists holding the same identity keys.                     *)
(***************************************************************************)
KeyOf(r) == <<r.artist_norm, r.title_norm>>

KeySet(s) == {KeyOf(s[i]) : i \in 1..Len(s)}

KeyCount(s, k) == Cardinality({i \in 1..Len(s) : KeyOf(s[i]) = k})

Pass1Only ==
    /\ missing = <<>> /\ extra = <<>>
    /\ \A n \in 1..Len(matches) :
          KeyOf(base[matches[n][1]]) = KeyOf(cand[matches[n][2]])
    /\ matches = MatchPass1(base, cand).matches

\* C13 as claimed: base and candidate with the same set of (artist, title)
\* keys are matched completely by pass 1.
C13_SameKeySetsPass1 ==
    (pc = "match_out" /\ KeySet(base) = KeySet(cand)) => Pass1Only

\* C13 amended: when every (artist, title) key occurs as often in the
\* candidate as in the base, pass 1 alone matches every record: nothing is
\* missing or extra, each pair has equal artist and title keys, and passes 2
\* and 3 add no pair.
C13_SameKeyBagsPass1 ==
    (pc = "match_out"
       /\ \A k \in KeySet(base) \cup KeySet(cand) :
             KeyCount(base, k) = KeyCount(cand, k))
    => Pass1Only

\* Two different keys, in opposite orders in base and candidate, while a later
\* pass has a key shared across the two pairs.
C13_Witness ==
    /\ pc = "match_out"
    /\ Len(base) = 2 /\ Len(cand) = 2
    /\ KeyOf(base[1]) # KeyOf(base[2])
    /\ KeyOf(base[1]) = KeyOf(cand[2]) /\ KeyOf(base[2]) = KeyOf(cand[1])
    /\ base[1].fb_norm # "" /\ base[1].fb_norm = cand[1].fb_norm
    /\ Len(matches) = 2

(***************************************************************************)
(* The key a matched pair shares.                                          *)
(***************************************************************************)
SharesIdentity(b, c) == b.artist_norm = c.artist_norm /\ b.title_norm = c.title_norm
SharesStem(b, c)     == b.fb_norm # "" /\ b.fb_norm = c.fb_norm
SharesTitle(b, c)    == b.title_norm # "" /\ b.title_norm = c.title_norm

\* C14: every matched pair has equal artist and title keys, or an equal
\* non-empty filename key, or an equal non-empty title key, the last only
\* when the title fallback is on.
C14_PairsShareAPassKey ==
    pc = "match_out" =>
       \A n \in 1..Len(matches) :
          LET b == base[matches[n][1]]
              c == cand[matches[n][2]]
          IN  \/ SharesIdentity(b, c)
              \/ SharesStem(b, c)
              \/ (title_fb /\ SharesTitle(b, c))

\* The fallback is off and a base and a candidate record that share only
\* their title stay unmatched, next to a pair matched by filename.
C14_Witness ==
    /\ pc = "match_out" /\ ~title_fb
    /\ \E i \in Range(missing), j \in Range(extra) :
          SharesTitle(base[i], cand[j])
    /\ \E n \in 1..Len(matches) :
          /\ ~SharesIdentity(base[matches[n][1]], cand[matches[n][2]])
          /\ SharesStem(base[matches[n][1]], cand[matches[n][2]])

(***************************************************************************)
(* The hot-cue flags of the matched pairs.                                 *)
(***************************************************************************)
InSeq(x, seq) == \E n \in 1..Len(seq) : seq[n] = x

\* The comparison is over and no clone has touched the candidate's cues.
Compared ==
    pc \in {"order", "order_loop", "order_commit", "post_verify", "hotcues"}

\* C11: a matched pair whose hot-cue counts differ is a count mismatch and
\* the placement comparison is not run for it; a pair is a placement mismatch
\* exactly when the counts are equal and the comparator leaves a base or a
\* candidate offset unmatched; no pair is both.
C11_CountOrPlacement ==
    Compared =>
       \A n \in 1..Len(matches) :
          LET pr  == matches[n]
              bms == base_cues[pr[1]]
              cms == cues[cand[pr[2]].song_pl_id]
              r   == _match_hot_cue_positions(bms, cms, hotcue_tolerance_ms)
          IN  /\ InSeq(pr, hotcue_count_mismatches) <=> Len(bms) # Len(cms)
              /\ Len(bms) # Len(cms) => ~InSeq(pr, placement_runs)
              /\ InSeq(pr, hotcue_placement_mismatches) <=>
                    /\ Len(bms) = Len(cms)
                    /\ (r.unmatched_base # <<>> \/ r.unmatched_cand # <<>>)
              /\ ~(InSeq(pr, hotcue_count_mismatches)
                    /\ InSeq(pr, hotcue_placement_mismatches))

\* One pair with different counts whose offsets would not pair up either,
\* and one pair with equal counts and offsets out of tolerance.
C11_Witness ==
    /\ pc = "hotcues"
    /\ Len(hotcue_count_mismatches) = 1
    /\ Len(hotcue_placement_mismatches) = 1
    /\ LET pr == hotcue_count_mismatches[1] IN
          /\ base_cues[pr[1]] = <<0>>
          /\ cues[cand[pr[2]].song_pl_id] = <<0, 2>>

(***************************************************************************)
(* The hot-cue write-back.                                                 *)
(***************************************************************************)
\* main() is past the write-back phase of a run with --apply-hotcues.
PhaseOver == apply_hotcues /\ pc \in {"exit", "done"} /\ exit_status # 2

Flagged(pr) ==
    InSeq(pr, hotcue_count_mismatches) \/ InSeq(pr, hotcue_placement_mismatches)

ClonesOf(pr) ==
    Cardinality({n \in 1..Len(clone_calls) :
                    /\ clone_calls[n].b = pr[1]
                    /\ clone_calls[n].sid = cand[pr[2]].song_pl_id})

\* C15 as claimed: with --apply-hotcues the clone is invoked exactly once
\* for every pair flagged as a count or a placement mismatch.
C15_EveryFlaggedPairCloned ==
    PhaseOver =>
       \A n \in 1..Len(matches) :
          Flagged(matches[n]) => ClonesOf(matches[n]) = 1

\* C15 amended: the clone is invoked exactly once for every flagged pair
\* whose base track has a hot cue, and for no other pair.
C15_FlaggedWithBaseCuesCloned ==
    PhaseOver =>
       \A n \in 1..Len(matches) :
          ClonesOf(matches[n]) =
             IF Flagged(matches[n]) /\ Len(base_cues[matches[n][1]]) > 0
             THEN 1 ELSE 0

\* A placement mismatch that was cloned next to a count mismatch whose base
\* has no hot cue and that was left alone.
C15_Witness ==
    /\ PhaseOver
    /\ Len(hotcue_placement_mismatches) = 1
    /\ Len(hotcue_count_mismatches) = 1
    /\ base_cues[hotcue_count_mismatches[1][1]] = <<>>
    /\ ClonesOf(hotcue_placement_mismatches[1]) = 1
    /\ ClonesOf(hotcue_count_mismatches[1]) = 0

\* C16: a clone that fails does not end the batch: every pair of to_fix gets
\* its clone call, in order, and each failed call is reported for its track.
C16_FailedCloneGoesOn ==
    PhaseOver =>
       /\ Len(clone_calls) = Len(to_fix)
       /\ \A n \in 1..Len(clone_calls) :
             /\ clone_calls[n].b = to_fix[n].b
             /\ clone_calls[n].sid = cand[to_fix[n].c].song_pl_id
             /\ ~clone_calls[n].ok =>
                   InSeq(Line("clone_failed", clone_calls[n].sid, 0, 0), reported)

\* The first clone of two failed, the second was made and succeeded.
C16_Witness ==
    /\ PhaseOver
    /\ Len(clone_calls) = 2
    /\ ~clone_calls[1].ok /\ clone_calls[2].ok

HotCueCommits == SelectSeq(commit_calls, LAMBDA cc : cc.phase = "hotcues")

LockedCommits == SelectSeq(commit_calls, LAMBDA cc : cc.outcome = "locked")

\* C18: once a commit of this run has failed on the lock, no later step of
\* the run saves the playlist order that was staged before it.
C18_LockedCommitIsTerminal ==
    [][(LockedCommits # <<>> /\ run' = run) => persisted' = persisted]_vars

\* C19: with an unknown base or candidate name the run ends at the read with
\* exit status 2 and the failure printed: nothing is matched, moved, cloned
\* or committed.
C19_UnknownNameAborts ==
    known # BothKnown =>
       /\ pc \in {"start", "done"}
       /\ pc = "done" =>
             /\ exit_status = 2
             /\ \/ InSeq(Line("base_not_found", 0, 0, 0), reported)
                \/ InSeq(Line("cand_not_found", 0, 0, 0), reported)
       /\ base = <<>> /\ cand = <<>> /\ matches = <<>>
       /\ move_calls = <<>> /\ clone_calls = <<>> /\ commit_calls = <<>>
       /\ store = persisted /\ cues = cues_saved

\* The candidate name is unknown, the base has two tracks with hot cues and
\* both apply flags are given.
C19_Witness ==
    /\ pc = "done" /\ exit_status = 2
    /\ known = {"base"}
    /\ Len(db_base) = 2 /\ base_cues[1] # <<>>
    /\ apply_order /\ apply_hotcues

(***************************************************************************)
(* The key of a text.                                                      *)
(***************************************************************************)
\* The characters that are letters or digits, and the ASCII letter each
\* folds to.
IsAlphanumeric(ch) == ch \in {"a", "b", "e", "B", "e_acute"}

Folded(ch) ==
    IF ch = "B" THEN "b" ELSE IF ch = "e_acute" THEN "e" ELSE ch

\* The maximal runs of letters and digits of a text, folded.
RECURSIVE WordsFrom(_, _)
WordsFrom(s, w) ==
    IF s = <<>> THEN (IF w = <<>> THEN <<>> ELSE <<w>>)
    ELSE IF IsAlphanumeric(Head(s))
         THEN WordsFrom(Tail(s), Append(w, Folded(Head(s))))
         ELSE (IF w = <<>> THEN <<>> ELSE <<w>>) \o WordsFrom(Tail(s), <<>>)

Tidy(k) ==
    /\ k # <<>> => (k[1] # " " /\ k[Len(k)] # " ")
    /\ \A n \in 1..(Len(k) - 1) : ~(k[n] = " " /\ k[n + 1] = " ")

\* C20: the key of a text is its words, a word being a maximal run of
\* letters and digits, joined by single spaces: any character that is not a
\* letter or a digit, ASCII or not, separates two words; the key has no
\* leading, trailing or doubled space.
C20_WordsOneSpaceApart ==
    pc = "norm_out" =>
       /\ norm_out = JoinWords(WordsFrom(norm_in, <<>>))
       /\ Tidy(norm_out)

\* What holds of _norm: the same with the non-ASCII characters taken out of
\* the text first, whatever they are.
NormOfAsciiPart ==
    pc = "norm_out" =>
       /\ norm_out = JoinWords(WordsFrom(AsciiIgnore(Decompose(norm_in)), <<>>))
       /\ Tidy(norm_out)

(***************************************************************************)
(* The pass of each matched pair, and what the pass chose among.           *)
(***************************************************************************)
Pass1End == Len(MatchPass1(base, cand).matches)
Pass2End == Len(MatchPass2(base, cand, MatchPass1(base, cand)).matches)

\* matches is appended to pass after pass: the pass that made pair n.
PassOf(n) == IF n <= Pass1End THEN 1 ELSE IF n <= Pass2End THEN 2 ELSE 3

PassKey(p, r) ==
    IF p = 1 THEN IdentityKey(r) ELSE IF p = 2 THEN r.fb_norm ELSE r.title_norm

\* The candidates still unmatched when pair n was made that have the key
\* looked up for its base record.
Rivals(n) ==
    LET before == {matches[m][2] : m \in 1..(n - 1)} IN
    {j \in (1..Len(cand)) \ before :
        PassKey(PassOf(n), cand[j]) = PassKey(PassOf(n), base[matches[n][1]])}

\* C24: the candidate paired with a base record is the last, in candidate
\* order, of the still-unmatched candidates that have the key of the pass.
C24_LastCandidateWins ==
    pc = "match_out" =>
       \A n \in 1..Len(matches) :
          /\ matches[n][2] \in Rivals(n)
          /\ \A j \in Rivals(n) : j <= matches[n][2]

\* Two base records and two candidates with one identity key: the first base
\* record gets the second candidate, the second the first.
C24_Witness ==
    /\ pc = "match_out"
    /\ Len(base) = 2 /\ Len(cand) = 2
    /\ IdentityKey(cand[1]) = IdentityKey(cand[2])
    /\ cand[1].fb_norm # cand[2].fb_norm
    /\ matches = << <<1, 2>>, <<2, 1>> >>

\* C28: what _match leaves unmatched cannot be matched: no missing base
\* record and extra candidate share the identity key or a non-empty filename
\* key, nor, with the title fallback on, a non-empty title key.
C28_ResultIsMaximal ==
    pc = "match_out" =>
       \A i \in Range(missing), j \in Range(extra) :
          /\ ~SharesIdentity(base[i], cand[j])
          /\ ~SharesStem(base[i], cand[j])
          /\ title_fb => ~SharesTitle(base[i], cand[j])

\* The fallback is on, one pair was made by the title alone, one base record
\* and one candidate are left over.
C28_Witness ==
    /\ pc = "match_out" /\ title_fb
    /\ Len(matches) = 1 /\ Len(missing) = 1 /\ Len(extra) = 1
    /\ ~SharesIdentity(base[matches[1][1]], cand[matches[1][2]])
    /\ ~SharesStem(base[matches[1][1]], cand[matches[1][2]])

EmptyIdentity(r) == r.artist_norm = "" /\ r.title_norm = ""

Min(a, b) == IF a <= b THEN a ELSE b

\* C29: records whose artist and title keys are both empty are matched with
\* each other in pass 1, as many as there are on the shorter side; no pair of
\* pass 2 has an empty filename key and no pair of pass 3 an empty title key.
C29_EmptyKeys ==
    pc = "match_out" =>
       /\ Cardinality({n \in 1..Len(matches) :
                          /\ PassOf(n) = 1
                          /\ EmptyIdentity(base[matches[n][1]])
                          /\ EmptyIdentity(cand[matches[n][2]])})
             = Min(Cardinality({i \in 1..Len(base) : EmptyIdentity(base[i])}),
                   Cardinality({j \in 1..Len(cand) : EmptyIdentity(cand[j])}))
       /\ \A n \in 1..Len(matches) :
             /\ PassOf(n) = 2 =>
                   /\ base[matches[n][1]].fb_norm # ""
                   /\ cand[matches[n][2]].fb_norm # ""
             /\ PassOf(n) = 3 =>
                   /\ base[matches[n][1]].title_norm # ""
                   /\ cand[matches[n][2]].title_norm # ""

\* A pair with empty artist and title on both sides and different filename
\* keys, next to a base record and a candidate left unmatched although their
\* title and filename keys are both empty, with the fallback on.
C29_Witness ==
    /\ pc = "match_out" /\ title_fb
    /\ \E n \in 1..Len(matches) :
          /\ EmptyIdentity(base[matches[n][1]])
          /\ EmptyIdentity(cand[matches[n][2]])
          /\ base[matches[n][1]].fb_norm # cand[matches[n][2]].fb_norm
    /\ \E i \in Range(missing), j \in Range(extra) :
          /\ base[i].title_norm = "" /\ cand[j].title_norm = ""
          /\ base[i].fb_norm = "" /\ cand[j].fb_norm = ""

(***************************************************************************)
(* The comparator against the best pairing there is.                       *)
(***************************************************************************)
MaxOf(S) == CHOOSE x \in S : \A y \in S : y <= x

\* The most pairs within tol that base values k.. can form with the
\* candidates not in taken, each value in at most one pair.
RECURSIVE MostPairs(_, _, _, _, _)
MostPairs(k, bms, cms, tol, taken) ==
    IF k > Len(bms) THEN 0
    ELSE MaxOf({MostPairs(k + 1, bms, cms, tol, taken)} \cup
               {1 + MostPairs(k + 1, bms, cms, tol, taken \cup {j}) :
                   j \in {j2 \in (1..Len(cms)) \ taken : Abs(cms[j2] - bms[k]) <= tol}})

\* C25: the comparator never pairs more values than the best pairing does,
\* and it can pair fewer: for base [1,2], candidate [0,1] and tolerance 1 the
\* pairing 1-0, 2-1 is complete, yet 1 takes its nearest value 1 and both 2
\* and 0 are reported unmatched; with base and candidate swapped everything
\* is paired.
C25_GreedyNotOptimal ==
    pc = "cues_out" =>
       /\ Len(hc_result.matched_pairs) <= MostPairs(1, base_ms, cand_ms, tol_ms, {})
       /\ (base_ms = <<1, 2>> /\ cand_ms = <<0, 1>> /\ tol_ms = 1) =>
             /\ MostPairs(1, base_ms, cand_ms, tol_ms, {}) = 2
             /\ hc_result.unmatched_base = <<2>>
             /\ hc_result.unmatched_cand = <<0>>
             /\ _match_hot_cue_positions(cand_ms, base_ms, tol_ms).unmatched_base = <<>>

\* Equal counts and a complete pairing within the tolerance, yet a base and
\* a candidate value are reported unmatched, and swapping the lists pairs
\* everything.
C25_Witness ==
    /\ pc = "cues_out"
    /\ Len(base_ms) = Len(cand_ms)
    /\ MostPairs(1, base_ms, cand_ms, tol_ms, {}) = Len(base_ms)
    /\ hc_result.unmatched_base # <<>> /\ hc_result.unmatched_cand # <<>>
    /\ LET r == _match_hot_cue_positions(cand_ms, base_ms, tol_ms) IN
          r.unmatched_base = <<>> /\ r.unmatched_cand = <<>>

(***************************************************************************)
(* pos and the playlist during the reorder loop.                           *)
(***************************************************************************)
InLoop == pc \in {"order_loop", "order_commit"}

\* C22: in the reorder loop, after moves that succeeded and moves that
\* failed, pos maps the slots of the candidate one-to-one onto 1..M and gives
\* each slot the position the playlist holds it at.
C22_PosIsStoreOrder ==
    InLoop =>
       /\ DOMAIN pos = {store[k].song_pl_id : k \in 1..Len(store)}
       /\ \A k \in 1..Len(store) : pos[store[k].song_pl_id] = k

\* A move failed, and a later move went forward and succeeded.
C22_Witness ==
    /\ InLoop
    /\ \E m, n \in 1..Len(move_calls) :
          /\ m < n /\ ~move_calls[m].ok /\ move_calls[n].ok
          /\ \E k \in 1..Len(moves_made) :
                /\ moves_made[k].sid = move_calls[n].sid
                /\ moves_made[k].from < moves_made[k].to

\* C27: while no move has failed, the desired slots already processed hold
\* positions 1, 2, ... in pos and in the playlist, and every move made went
\* backward, from a greater position to its target.
C27_PrefixPlacedMovesBackward ==
    (InLoop /\ AllMovesOk) =>
       /\ \A k \in 1..(idx - 1) :
             /\ pos[desired_ids[k]] = k
             /\ store[k].song_pl_id = desired_ids[k]
       /\ \A n \in 1..Len(moves_made) : moves_made[n].to < moves_made[n].from

\* The loop is over, two moves were made and none failed.
C27_Witness ==
    /\ pc = "order_commit"
    /\ AllMovesOk
    /\ Len(moves_made) = 2 /\ Len(desired_ids) = 3

NoMoveNeeded ==
    /\ move_calls = <<>>
    /\ InSeq(Line("none_needed", 0, 0, 0), reported)

\* C23: when every matched pair has equal TrackNo the reorder
\* phase moves nothing and reports that no move is needed, whether or not
\* records are unmatched.
C23_AlignedMeansNoMove ==
    (LoopDone /\ Misaligned(matches, base, cand) = <<>>) => NoMoveNeeded

\* With every record matched as well, the reorder phase does move nothing:
\* the targets 1..N are then the base TrackNo values themselves.
AlignedAndCompleteMeansNoMove ==
    (LoopDone /\ Misaligned(matches, base, cand) = <<>>
       /\ missing = <<>> /\ extra = <<>>)
    => NoMoveNeeded

(***************************************************************************)
(* What a commit saves of the hot cues, and the exit status.               *)
(***************************************************************************)
\* The base hot cues a candidate slot is paired with.
BaseCuesFor(sid) ==
    {base_cues[matches[n][1]] :
        n \in {m \in 1..Len(matches) : cand[matches[m][2]].song_pl_id = sid}}

\* C26: whatever is committed, the saved hot cues of every candidate track
\* are what they were before or the full copy of its base track's hot cues,
\* also when a clone failed after deleting the candidate's cues.
C26_CommittedAllOrNothing ==
    [][\A sid \in DOMAIN cues_saved :
          \/ cues_saved'[sid] = cues_saved[sid]
          \/ cues_saved'[sid] \in BaseCuesFor(sid)]_vars

Empty(list) == list = <<>>

\* C30: a run that found both playlists ends with status 0 when the missing,
\* extra, count-mismatch, placement-mismatch and misaligned lists computed
\* by the comparison are all empty and with status 1 otherwise, whatever the
\* apply phases did afterwards.
C30_ExitStatusFromComparison ==
    (pc = "done" /\ known = BothKnown) =>
        exit_status =
            IF /\ Empty(missing) /\ Empty(extra)
               /\ Empty(hotcue_count_mismatches)
               /\ Empty(hotcue_placement_mismatches)
               /\ Empty(Misaligned(matches, base, cand))
            THEN 0 ELSE 1

\* Status 1 after every difference was repaired and saved: the only
\* differences were a misaligned pair and hot cues, every move and every
\* clone succeeded and both commits went through.
C30_Witness ==
    /\ pc = "done" /\ exit_status = 1
    /\ apply_order /\ apply_hotcues
    /\ Empty(missing) /\ Empty(extra)
    /\ ~Empty(Misaligned(matches, base, cand))
    /\ AllMovesOk /\ move_calls # <<>>
    /\ to_fix # <<>> /\ Len(clone_calls) = Len(to_fix)
    /\ Len(to_fix) = Len(hotcue_count_mismatches)
                      + Len(hotcue_placement_mismatches)
    /\ \A n \in 1..Len(clone_calls) : clone_calls[n].ok
    /\ Len(commit_calls) = 2
    /\ \A n \in 1..Len(commit_calls) : commit_calls[n].outcome = "ok"
    /\ persisted = store /\ cues_saved = cues

(***************************************************************************)
(* What detect_current_song returns.                                       *)
(***************************************************************************)
\* The songs of the call whose play count is above the one in the map.
Increased(call) ==
    {k \in 1..Len(call.songs) :
        /\ call.songs[k].cid \in DOMAIN call.previous_counts
        /\ call.counts[call.songs[k].cid]
              > call.previous_counts[call.songs[k].cid]}

\* C21: a call that returns gives the play count of every content of the
\* playlist, and as the song: the increased song of greatest TrackNo when a
\* play count is above its value in previous_counts; else last_known_song
\* when it is given; else the song of least TrackNo.  A song whose content
\* previous_counts does not hold is not returned as increased.  The call
\* raises only on a playlist without songs and without last_known_song.
C21_DetectedSong ==
    detect_call.made =>
      LET call == detect_call
          inc  == Increased(call)
          all  == 1..Len(call.songs)
      IN  /\ call.raised <=>
                (call.songs = <<>> /\ call.last_known_song = NoSong)
          /\ ~call.raised =>
              /\ DOMAIN call.new_counts = {call.songs[k].cid : k \in all}
              /\ \A c \in DOMAIN call.new_counts :
                    call.new_counts[c] = call.counts[c]
              /\ inc # {} =>
                    \E k \in inc :
                       /\ call.current = call.songs[k]
                       /\ \A m \in inc :
                             call.songs[m].TrackNo <= call.songs[k].TrackNo
              /\ (inc = {} /\ call.last_known_song # NoSong) =>
                    call.current = call.last_known_song
              /\ (inc = {} /\ call.last_known_song = NoSong) =>
                    \E k \in all :
                       /\ call.current = call.songs[k]
                       /\ \A m \in all :
                             call.songs[k].TrackNo <= call.songs[m].TrackNo

\* A call on a playlist with a song the map does not hold and two songs
\* whose play count went up: the later of the two is returned, not the
\* earlier, not the new song and not last_known_song.
C21_Witness ==
    /\ detect_call.made /\ ~detect_call.raised
    /\ Cardinality(Increased(detect_call)) = 2
    /\ \E k \in 1..Len(detect_call.songs) :
          detect_call.songs[k].cid \notin DOMAIN detect_call.previous_counts
    /\ detect_call.last_known_song # NoSong
    /\ detect_call.current # detect_call.last_known_song
    /\ \E k \in Increased(detect_call) :
          detect_call.current = detect_call.songs[k]

====
